---------------------------- MODULE Spec2Model ----------------------------
(***************************************************************************)
(* Verification model of the GDG points tracker (src/app.py).              *)
(*                                                                         *)
(* Several state machines share this module:                               *)
(*   SpecResolve  get_points: the retrying fetch-and-extract resolver      *)
(*   SpecFetch    fetch_points_concurrently: the bounded worker pool       *)
(*   Spec         the upload job handlers over processing_state and the DB *)
(*   SpecThreaded the same handlers serving requests concurrently          *)
(*   SpecLedger   one job, then view_participants and refresh_points       *)
(*   SpecSplit    the batching of a participant list                       *)
(*   SpecQuery    next_refresh                                             *)
(*   SpecFetchHang  the worker pool with a task that never returns         *)
(*   SpecRefreshJob refresh_points over two batches, with failing batches  *)
(*   SpecPurge    delete_all_participants with two accounts in the store   *)
(*   SpecImport   api_parse_participants served by several threads         *)
(*   SpecAccess   the job operations asked for by two accounts             *)
(*   SpecUploads  upload_csv called repeatedly, also within one second     *)
(*                                                                         *)
(* Text is a sequence of tokens.  A token is one character ("5", " ") or   *)
(* one whole word ("points", "score"); words are atomic, so a substring    *)
(* test is a test on tokens.                                               *)
(***************************************************************************)
EXTENDS Integers, Sequences, FiniteSets, TLC

VARIABLES
    \* get_points
    gp_link,        \* the argument `link`
    gp_retries,     \* the local `retries`
    gp_fetches,     \* number of requests.get calls made so far
    gp_pc,          \* "loop" | "done" | "raised"
    gp_result,      \* the returned value (NoResult until it returns)
    gp_hist,        \* kinds of the fetch outcomes seen so far, in order
    gp_page,        \* the page of the last successful fetch (<< >> if none)
    \* fetch_points_concurrently
    fp_parts,       \* ids of the participants passed in, in order
    fp_task,        \* per submitted task: [st, local, out]; local is the value
                    \* of `processed` a task has read and not yet stored
    fp_processed,   \* the nonlocal counter `processed`
    fp_results,     \* the dict `results`
    fp_nerrors,     \* len(errors)
    fp_pc,          \* main thread: "collect" | "shutdown" | "returned"
    \* the upload job handlers
    processing_state,   \* the dict processing_state: file id -> job state
    db_participants,    \* table participants: id -> row
    db_history,         \* table points_history: participant id -> the points
                        \* of its rows, oldest first
    db_last_refresh,    \* table last_refresh: its rows, oldest first
    inflight,           \* the scrape_batch requests being served
    resp,               \* the response to the last request answered
    \* the batching of a participant list
    sb_participants,    \* the list to split
    sb_batches,         \* the batches made of it
    sb_pc,              \* "call" | "done"
    \* next_refresh
    nr_last,            \* refresh_date of the latest last_refresh row, in
                        \* minutes (NoMarker if the table is empty)
    nr_now,             \* datetime.utcnow() at the first read of the clock
    nr_lag,             \* minutes from the first read to the second
    nr_resp,            \* the JSON answer
    nr_pc,              \* "call" | "done"
    \* the pages of the web application
    now,                \* datetime.utcnow(), in days since start-up
    refreshing,         \* the refresh_points requests past the cooldown gate
    parsing,            \* the parse_participants requests served row by row
    rendered            \* the page the last page request was answered with

gpVars == <<gp_link, gp_retries, gp_fetches, gp_pc, gp_result, gp_hist, gp_page>>
fpVars == <<fp_parts, fp_task, fp_processed, fp_results, fp_nerrors, fp_pc>>
jobVars == <<processing_state, db_participants, db_history, db_last_refresh, inflight, resp>>

sbVars == <<sb_participants, sb_batches, sb_pc>>
nrVars == <<nr_last, nr_now, nr_lag, nr_resp, nr_pc>>
webVars == <<now, refreshing, parsing, rendered>>
auxVars == <<sbVars, nrVars, webVars>>

vars == <<gpVars, fpVars, jobVars, auxVars>>

-----------------------------------------------------------------------------
(* Bounds                                                                  *)

\* Longest page (number of top-level elements) the resolver is given.
MaxNodes == 2
\* Longest participant list given to fetch_points_concurrently.
MaxParts == 4
\* Most scrape_batch requests served at the same time.
MaxInflight == 2
\* Longest warnings list of a job.
MaxWarnings == 3
\* Longest errors list of a job.
MaxErrors == 1
\* Most rows of points_history per participant.
MaxHistory == 2
\* Longest list that is split into batches.
MaxSplitLen == 12
\* Most days between the last refresh and a next_refresh query.
MaxQueryDays == 8
\* Cap on the fetch counter, so that a resolver that never gives up still
\* has finitely many states.
MaxFetchCount == 5
\* Last day of the clock.
MaxDay == 7
\* Most rows of last_refresh.
MaxMarkers == 2
\* Most refresh_points requests in flight at once.
MaxRefreshing == 2
\* Most parse_participants requests in flight at once.
MaxParsing == 2
\* Clock seconds at which files are uploaded.
MaxStamp == 2

\* Value of gp_result before get_points has returned.
NoResult == -1

-----------------------------------------------------------------------------
(* Strings                                                                 *)

DigitChars == {"0", "1", "2", "3", "4", "5", "6", "7", "8", "9"}

\* str.isdigit on one character.  "sup2" is the superscript two: isdigit()
\* is true of it and int() rejects it.
IsDigitChar(c) == c \in DigitChars \cup {"sup2"}

DigitVal(c) ==
    CASE c = "0" -> 0 [] c = "1" -> 1 [] c = "2" -> 2 [] c = "3" -> 3
      [] c = "4" -> 4 [] c = "5" -> 5 [] c = "6" -> 6 [] c = "7" -> 7
      [] c = "8" -> 8 [] c = "9" -> 9

\* str.lower on one token.
Lower(c) == IF c = "Points" THEN "points" ELSE c

\* kw in tok, for a lower-case token.
HasSub(tok, kw) ==
    \/ tok = kw
    \/ kw = "point" /\ tok = "points"

\* kw in s.lower()
ContainsKw(s, kw) == \E i \in 1..Len(s) : HasSub(Lower(s[i]), kw)

RECURSIVE LStrip(_)
LStrip(s) == IF Len(s) > 0 /\ Head(s) = " " THEN LStrip(Tail(s)) ELSE s

RECURSIVE RStrip(_)
RStrip(s) ==
    IF Len(s) > 0 /\ s[Len(s)] = " " THEN RStrip(SubSeq(s, 1, Len(s) - 1)) ELSE s

\* str.strip
Strip(s) == RStrip(LStrip(s))

\* str.isdigit
IsDigitStr(s) == Len(s) > 0 /\ \A i \in 1..Len(s) : IsDigitChar(s[i])

\* ''.join(filter(str.isdigit, s))
Digits(s) == SelectSeq(s, IsDigitChar)

\* int(s) succeeds on a string of digits
IntOk(s) == Len(s) > 0 /\ \A i \in 1..Len(s) : s[i] \in DigitChars

RECURSIVE IntOf(_)
IntOf(s) ==
    IF Len(s) = 0 THEN 0
    ELSE 10 * IntOf(SubSeq(s, 1, Len(s) - 1)) + DigitVal(s[Len(s)])

\* s.replace(' points', '')
RECURSIVE ReplacePoints(_)
ReplacePoints(s) ==
    IF Len(s) = 0 THEN s
    ELSE IF Len(s) >= 2 /\ s[1] = " " /\ s[2] = "points"
         THEN ReplacePoints(SubSeq(s, 3, Len(s)))
         ELSE <<Head(s)>> \o ReplacePoints(Tail(s))

\* Python dicts: functions on a finite set of keys.
EmptyMap == [k \in {} |-> 0]
Put(m, k, v) == [x \in DOMAIN m \cup {k} |-> IF x = k THEN v ELSE m[x]]
\* m.update(n)
Update(m, n) == [x \in DOMAIN m \cup DOMAIN n |-> IF x \in DOMAIN n THEN n[x] ELSE m[x]]

RECURSIVE Concat(_)
Concat(ss) == IF Len(ss) = 0 THEN << >> ELSE Head(ss) \o Concat(Tail(ss))


-----------------------------------------------------------------------------
(* Pages: the parsed document (BeautifulSoup).  A page is a sequence of    *)
(* top-level elements; an element has a tag name, a class and children; a  *)
(* child is a string (type "text") or an element holding one string (type  *)
(* "tag", text << >> when it holds none).                                  *)

TextKid(t) == [type |-> "text", tag |-> "", cls |-> "", text |-> t]
TagKid(tag, cls, t) == [type |-> "tag", tag |-> tag, cls |-> cls, text |-> t]
Node(tag, cls, kids) == [tag |-> tag, cls |-> cls, kids |-> kids]

\* Tag.get_text() of a top-level element
NodeText(n) == Concat([k \in 1..Len(n.kids) |-> n.kids[k].text])

\* soup.get_text()
PageText(page) == Concat([i \in 1..Len(page) |-> NodeText(page[i])])

\* The tags of the page in document order; kid = 0 is the element itself.
RECURSIVE TagRefs(_, _)
TagRefs(page, i) ==
    IF i > Len(page) THEN << >>
    ELSE <<[top |-> i, kid |-> 0]>>
         \o SelectSeq([k \in 1..Len(page[i].kids) |-> [top |-> i, kid |-> k]],
                      LAMBDA r : page[r.top].kids[r.kid].type = "tag")
         \o TagRefs(page, i + 1)

\* The strings of the page in document order.
RECURSIVE StringRefs(_, _)
StringRefs(page, i) ==
    IF i > Len(page) THEN << >>
    ELSE SelectSeq([k \in 1..Len(page[i].kids) |-> [top |-> i, kid |-> k]],
                   LAMBDA r : Len(page[r.top].kids[r.kid].text) > 0)
         \o StringRefs(page, i + 1)

RefTag(page, r) == IF r.kid = 0 THEN page[r.top].tag ELSE page[r.top].kids[r.kid].tag
RefCls(page, r) == IF r.kid = 0 THEN page[r.top].cls ELSE page[r.top].kids[r.kid].cls

\* Tag.string: the single string of the tag, << >> for None.
RefString(page, r) ==
    IF r.kid = 0
    THEN IF Len(page[r.top].kids) = 1 THEN page[r.top].kids[1].text ELSE << >>
    ELSE page[r.top].kids[r.kid].text

\* tag.parent.get_text()
TagParentText(page, r) == IF r.kid = 0 THEN PageText(page) ELSE NodeText(page[r.top])

\* string.parent.get_text(): the parent of a string is the tag holding it.
StringParentText(page, r) ==
    IF page[r.top].kids[r.kid].type = "tag"
    THEN page[r.top].kids[r.kid].text
    ELSE NodeText(page[r.top])

\* The texts of string.parent.next_siblings, in order.
StringParentSiblings(page, r) ==
    IF page[r.top].kids[r.kid].type = "tag"
    THEN [k \in 1..(Len(page[r.top].kids) - r.kid) |-> page[r.top].kids[r.kid + k].text]
    ELSE [i \in 1..(Len(page) - r.top) |-> NodeText(page[r.top + i])]

-----------------------------------------------------------------------------
(* PointsExtractor: the four approaches of get_points                      *)

NotFound == [found |-> FALSE, value |-> 0]
Found(v) == [found |-> TRUE, value |-> v]

\* The first success of a sequence of attempts.
RECURSIVE FirstFound(_)
FirstFound(rs) ==
    IF Len(rs) = 0 THEN NotFound
    ELSE IF Head(rs).found THEN Head(rs) ELSE FirstFound(Tail(rs))

\* Approach 1: <strong> inside the first element of class profile-league.
Approach1(page) ==
    LET leagues == SelectSeq(TagRefs(page, 1),
                             LAMBDA r : RefCls(page, r) = "profile-league")
    IN  IF Len(leagues) = 0 \/ leagues[1].kid # 0 THEN NotFound
        ELSE LET strongs == SelectSeq(page[leagues[1].top].kids,
                                      LAMBDA k : k.type = "tag" /\ k.tag = "strong")
             IN  IF Len(strongs) = 0 THEN NotFound
                 ELSE LET strong_text == Strip(strongs[1].text)
                          points_text == Strip(ReplacePoints(strong_text))
                      IN  IF Len(strong_text) > 0 /\ IsDigitStr(points_text)
                             /\ IntOk(points_text)
                          THEN Found(IntOf(points_text))
                          ELSE NotFound

\* Approach 2: a <span> holding a number whose parent's text mentions points.
Approach2(page) ==
    LET number_spans ==
            SelectSeq(TagRefs(page, 1),
                      LAMBDA r : RefTag(page, r) = "span"
                                 /\ IsDigitStr(Strip(RefString(page, r))))
        try(r) ==
            IF ContainsKw(TagParentText(page, r), "point")
               /\ IntOk(Strip(RefString(page, r)))
            THEN Found(IntOf(Strip(RefString(page, r))))
            ELSE NotFound
    IN  FirstFound([i \in 1..Len(number_spans) |-> try(number_spans[i])])

\* Approach 3: the digits of the first string that mentions points.
Approach3(page) ==
    LET points_elements ==
            SelectSeq(StringRefs(page, 1),
                      LAMBDA r : ContainsKw(page[r.top].kids[r.kid].text, "point"))
        try(r) ==
            LET digits == Digits(Strip(page[r.top].kids[r.kid].text))
            IN  IF Len(digits) > 0 /\ IntOk(digits) THEN Found(IntOf(digits))
                ELSE NotFound
    IN  FirstFound([i \in 1..Len(points_elements) |-> try(points_elements[i])])

keywords == <<"score", "total", "point", "credit", "achievement">>

\* Approach 4: digits in the parent, or in a following sibling of the parent,
\* of a string that holds a keyword.
Approach4(page) ==
    LET elements(kw) ==
            SelectSeq(StringRefs(page, 1),
                      LAMBDA r : ContainsKw(page[r.top].kids[r.kid].text, kw))
        sib(t) ==
            IF Len(Digits(t)) > 0 /\ IntOk(Digits(t)) THEN Found(IntOf(Digits(t)))
            ELSE NotFound
        try(r) ==
            LET digits == Digits(StringParentText(page, r))
                sibs == StringParentSiblings(page, r)
            IN  IF Len(digits) > 0
                THEN IF IntOk(digits) THEN Found(IntOf(digits)) ELSE NotFound
                ELSE FirstFound([k \in 1..Len(sibs) |-> sib(sibs[k])])
        perKw(kw) == FirstFound([i \in 1..Len(elements(kw)) |-> try(elements(kw)[i])])
    IN  FirstFound([j \in 1..Len(keywords) |-> perKw(keywords[j])])

\* Faulty variant: the text scan is tried before the league container.
ExtractPoints_TextFirst(page) ==
    FirstFound(<<Approach3(page), Approach1(page), Approach2(page), Approach4(page)>>)

\* The approaches in the order the code tries them.
ExtractPoints(page) ==
    FirstFound(<<Approach1(page), Approach2(page), Approach3(page), Approach4(page)>>)

-----------------------------------------------------------------------------
(* The pages and links the resolver is run on                              *)

Nodes ==
    { Node("div", "profile-league", <<TagKid("strong", "", <<"5", "5", " ", "points">>)>>),
      Node("div", "profile-league", <<TagKid("strong", "", <<"x">>)>>),
      Node("div", "profile-league", <<TagKid("strong", "", <<"sup2">>)>>),
      Node("p", "", <<TagKid("span", "", <<"7">>), TextKid(<<" ", "Points">>)>>),
      Node("p", "", <<TextKid(<<"1", "2", " ", "points", " ", "x", " ", "3", " ", "x">>)>>),
      Node("div", "", <<TagKid("b", "", <<"score">>), TagKid("i", "", <<"9">>)>>),
      Node("span", "", <<TextKid(<<"4">>)>>),
      Node("p", "", <<TextKid(<<"x">>)>>) }

Pages == UNION {[1..n -> Nodes] : n \in 1..MaxNodes}

StrLink(s) == [null |-> "str", s |-> s]

\* A profile reference: a string, None or NaN.
Links ==
    { StrLink(<<"https://profile/a">>),
      StrLink(<<"https://profile/b">>),
      StrLink(<< >>),
      StrLink(<<"INVALID_PROFILE_URL">>),
      StrLink(<<"INVALID_PROFILE_URL", "_", "Ann">>),
      [null |-> "none", s |-> << >>],
      [null |-> "nan", s |-> << >>] }

\* What one requests.get can do: time out, fail to connect, answer with a
\* bad status, answer with no content, answer with a page, or fail in a way
\* that is no RequestException.
FailureKinds == {"timeout", "conn_error", "http_error", "empty", "unexpected"}
Failure(k) == [type |-> k, page |-> << >>]
PageOutcome(pg) == [type |-> "page", page |-> pg]
FetchOutcomes == {Failure(k) : k \in FailureKinds} \cup {PageOutcome(pg) : pg \in Pages}

-----------------------------------------------------------------------------
(* RetryingPointsResolver: get_points                                      *)

max_retries == 3

\* The value get_points returns when it finds no points.
FallbackPoints == 1

\* Faulty variant: only the bare marker counts as a placeholder.
IsInvalidLink_EqOnly(link) ==
    \/ link.null # "str"
    \/ Len(link.s) = 0
    \/ link.s = <<"INVALID_PROFILE_URL">>

\* not link or link == 'INVALID_PROFILE_URL' or pd.isna(link)
\*   or 'INVALID_PROFILE_URL' in link
IsInvalidLink(link) ==
    \/ link.null # "str"
    \/ Len(link.s) = 0
    \/ \E i \in 1..Len(link.s) : link.s[i] = "INVALID_PROFILE_URL"

Return(v, fetched) == [kind |-> "return", value |-> v, retries |-> 0, fetched |-> fetched]
Retry(r) == [kind |-> "retry", value |-> 0, retries |-> r, fetched |-> 1]

\* Faulty variant: a timeout that does not count the retry.
OnTimeout_NoCount(retries) == Retry(retries)

\* except requests.Timeout
OnTimeout(retries) ==
    IF retries + 1 > max_retries THEN Return(FallbackPoints, 1) ELSE Retry(retries + 1)

\* Faulty variant: a request error that gives up at once.
OnRequestException_NoRetry(retries) == Return(FallbackPoints, 1)

\* except requests.RequestException (connection errors, raise_for_status)
OnRequestException(retries) ==
    IF retries + 1 > max_retries THEN Return(FallbackPoints, 1) ELSE Retry(retries + 1)

\* The page was fetched: the first approach that finds points, else 1.
OnPage(page) ==
    LET e == ExtractPoints(page)
    IN  IF e.found THEN Return(e.value, 1) ELSE Return(FallbackPoints, 1)

\* Faulty variant: an empty body is retried like a request error.
Attempt_RetryEmpty(link, retries, o) ==
    IF IsInvalidLink(link) THEN Return(FallbackPoints, 0)
    ELSE CASE o.type = "timeout" -> OnTimeout(retries)
           [] o.type \in {"conn_error", "http_error", "empty"} -> OnRequestException(retries)
           [] o.type = "unexpected" -> Return(FallbackPoints, 1)
           [] o.type = "page" -> OnPage(o.page)

\* One pass through the body of the while loop, the fetch doing `o`.
Attempt(link, retries, o) ==
    IF IsInvalidLink(link) THEN Return(FallbackPoints, 0)
    ELSE CASE o.type = "timeout" -> OnTimeout(retries)
           [] o.type \in {"conn_error", "http_error"} -> OnRequestException(retries)
           [] o.type = "empty" -> Return(FallbackPoints, 1)
           [] o.type = "unexpected" -> Return(FallbackPoints, 1)
           [] o.type = "page" -> OnPage(o.page)

\* get_points(link) when the fetches do outs[1], outs[2], ... (a fetch past
\* the end of outs times out): the value returned and the fetches made.
RECURSIVE GetPointsFrom(_, _, _, _)
GetPointsFrom(link, retries, outs, fetches) ==
    IF retries > max_retries THEN [points |-> FallbackPoints, fetches |-> fetches]
    ELSE LET o == IF Len(outs) = 0 THEN Failure("timeout") ELSE Head(outs)
             a == Attempt(link, retries, o)
         IN  IF a.kind = "return"
             THEN [points |-> a.value, fetches |-> fetches + a.fetched]
             ELSE GetPointsFrom(link, a.retries,
                                IF Len(outs) = 0 THEN outs ELSE Tail(outs),
                                fetches + a.fetched)

get_points(link, outs) == GetPointsFrom(link, 0, outs, 0).points

\* fetch_points_concurrently not in use.
FpIdle ==
    /\ fp_parts = << >>
    /\ fp_task = << >>
    /\ fp_processed = 0
    /\ fp_results = EmptyMap
    /\ fp_nerrors = 0
    /\ fp_pc = "returned"

NoResponse ==
    [success |-> FALSE, canContinue |-> FALSE, results |-> << >>, totalParticipants |-> 0,
     message |-> "none"]

\* The state after start-up: no job, empty tables.
JobIdle ==
    /\ processing_state = EmptyMap
    /\ db_participants = EmptyMap
    /\ db_history = EmptyMap
    /\ db_last_refresh = << >>
    /\ inflight = {}
    /\ resp = NoResponse

\* No list is being split.
SbIdle ==
    /\ sb_participants = << >>
    /\ sb_batches = << >>
    /\ sb_pc = "done"

\* LastRefresh.query...first() is None
NoMarker == -1

\* The JSON of next_refresh: time_remaining is absent when can_refresh.
RefreshAnswer(can, next, has, d, h, m) ==
    [can_refresh |-> can, next_refresh |-> next, has_remaining |-> has,
     days |-> d, hours |-> h, minutes |-> m]
NoAnswer == RefreshAnswer(FALSE, 0, FALSE, 0, 0, 0)

\* No next_refresh query is being answered.
NrIdle ==
    /\ nr_last = NoMarker
    /\ nr_now = 0
    /\ nr_lag = 0
    /\ nr_resp = NoAnswer
    /\ nr_pc = "done"

\* One row of a rendered list or of the finalize report: the participant,
\* the points shown, the previous points, the weekly figure, and whether the
\* weekly figure is the text 'N/A (First upload)' instead.
ReportRow(id, points, previous, weekly, first) ==
    [id |-> id, points |-> points, previous |-> previous, weekly |-> weekly,
     first |-> first]

\* sorted(rows, key=lambda x: x[key], reverse=True) of the rows rowOf[id],
\* id in ids, listed in ascending id: a stable sort, equal keys keep their
\* order.
SortKey(row, key) == IF key = "weekly" THEN row.weekly ELSE row.points

RECURSIVE InsertDesc(_, _, _)
InsertDesc(sorted, row, key) ==
    IF Len(sorted) = 0 THEN <<row>>
    ELSE IF SortKey(Head(sorted), key) >= SortKey(row, key)
         THEN <<Head(sorted)>> \o InsertDesc(Tail(sorted), row, key)
         ELSE <<row>> \o sorted

RECURSIVE SortedRows(_, _, _)
SortedRows(rowOf, ids, key) ==
    IF ids = {} THEN << >>
    ELSE LET id == CHOOSE i \in ids : \A j \in ids : i >= j
         IN  InsertDesc(SortedRows(rowOf, ids \ {id}, key), rowOf[id], key)

\* The ids of a set in ascending order.
RECURSIVE Ascending(_)
Ascending(ids) ==
    IF ids = {} THEN << >>
    ELSE LET id == CHOOSE i \in ids : \A j \in ids : i >= j
         IN  Append(Ascending(ids \ {id}), id)

\* A rendered page (or the redirect and its flash message); `failed` holds
\* the batches a refresh has flashed an error for.
Page(name, rows) == [page |-> name, rows |-> rows, failed |-> {}]
NoPage == Page("none", << >>)

\* Start-up: the clock at 0, no page request served.
WebIdle ==
    /\ now = 0
    /\ refreshing = {}
    /\ parsing = {}
    /\ rendered = NoPage

AuxIdle == SbIdle /\ NrIdle /\ WebIdle

\* get_points not in use.
GpIdle ==
    /\ gp_link = StrLink(<< >>)
    /\ gp_retries = 0
    /\ gp_fetches = 0
    /\ gp_pc = "done"
    /\ gp_result = NoResult
    /\ gp_hist = << >>
    /\ gp_page = << >>

InitResolve ==
    /\ FpIdle
    /\ JobIdle
    /\ AuxIdle
    /\ gp_link \in Links
    /\ gp_retries = 0
    /\ gp_fetches = 0
    /\ gp_pc = "loop"
    /\ gp_result = NoResult
    /\ gp_hist = << >>
    /\ gp_page = << >>

\* Nothing outside get_points changes while it runs.
GpFrame == UNCHANGED <<fpVars, jobVars, auxVars>>

\* One iteration of `while retries <= max_retries`, or the return after it,
\* the fetch doing one of `outcomes`.
GetPointsStep(outcomes) ==
    /\ gp_pc = "loop"
    /\ GpFrame
    /\ gp_fetches < MaxFetchCount
    /\ IF gp_retries > max_retries
       THEN /\ gp_pc' = "done"
            /\ gp_result' = FallbackPoints
            /\ UNCHANGED <<gp_link, gp_retries, gp_fetches, gp_hist, gp_page>>
       ELSE \E o \in outcomes :
              \* no request is made for an invalid link: its outcome is not drawn
              /\ IsInvalidLink(gp_link) => o = Failure("timeout")
              /\ gp_hist' = IF IsInvalidLink(gp_link) THEN gp_hist ELSE Append(gp_hist, o.type)
              /\ gp_page' = IF IsInvalidLink(gp_link) THEN gp_page ELSE o.page
              /\ LET a == Attempt(gp_link, gp_retries, o)
                 IN
                  /\ gp_fetches' = gp_fetches + a.fetched
                  /\ gp_pc' = IF a.kind = "retry" THEN "loop"
                              ELSE IF a.kind = "return" THEN "done" ELSE "raised"
                  /\ gp_result' = IF a.kind = "return" THEN a.value ELSE NoResult
                  /\ gp_retries' = IF a.kind = "retry" THEN a.retries ELSE gp_retries
                  /\ UNCHANGED gp_link

NextResolve == GetPointsStep(FetchOutcomes)

SpecResolve == InitResolve /\ [][NextResolve]_vars

\* The same loop over the failures and the pages of one node.
ShortOutcomes ==
    {Failure(k) : k \in FailureKinds} \cup {PageOutcome(pg) : pg \in [1..1 -> Nodes]}
NextResolveShort == GetPointsStep(ShortOutcomes)

\* The scheduler runs the loop until it returns.
SpecResolveFair ==
    InitResolve /\ [][NextResolveShort]_vars /\ WF_vars(NextResolveShort)

-----------------------------------------------------------------------------
(* BatchScheduler: fetch_points_concurrently                               *)

max_workers == 3

\* The list of the first n participants; ids are opaque to the scheduler.
PartList(n) == [i \in 1..n |-> 10 + i]

\* The points get_points returns for a participant whose profile resolves.
ValueOf(id) == id + 20

\* What a task can do: return points, catch an exception raised inside its
\* try block, or let one escape (app_context() is entered outside the try).
\* future.result() re-raises an escaped exception; the loop answers a
\* concurrent.futures.TimeoutError and any other exception alike.
TaskOutcomes == {"value", "caught", "raised"}

QueuedTask == [st |-> "queued", local |-> 0, out |-> "none"]

InitFetch ==
    /\ GpIdle
    /\ JobIdle
    /\ AuxIdle
    /\ fp_parts \in {PartList(n) : n \in 0..MaxParts}
    /\ fp_task = [i \in 1..Len(fp_parts) |-> QueuedTask]
    /\ fp_processed = 0
    /\ fp_results = EmptyMap
    /\ fp_nerrors = 0
    /\ fp_pc = "collect"

Executing == {i \in DOMAIN fp_task : fp_task[i].st \in {"running", "incr", "hung"}}
Finished(i) == fp_task[i].st \in {"done", "collected"}

\* Nothing outside fetch_points_concurrently changes while it runs.
FpFrame == UNCHANGED <<gpVars, jobVars, auxVars>>

\* Faulty variant: a pool that starts a queued task whatever is running.
FpStart_NoLimit(i) ==
    /\ fp_task[i].st = "queued"
    /\ \A j \in 1..(i - 1) : fp_task[j].st # "queued"
    /\ fp_task' = [fp_task EXCEPT ![i].st = "running"]
    /\ UNCHANGED <<fp_parts, fp_processed, fp_results, fp_nerrors, fp_pc>>
    /\ FpFrame

\* A worker thread of the pool takes the next queued task.
FpStart(i) ==
    /\ fp_task[i].st = "queued"
    /\ \A j \in 1..(i - 1) : fp_task[j].st # "queued"
    /\ Cardinality(Executing) < max_workers
    /\ fp_task' = [fp_task EXCEPT ![i].st = "running"]
    /\ UNCHANGED <<fp_parts, fp_processed, fp_results, fp_nerrors, fp_pc>>
    /\ FpFrame

\* An exception leaves fetch_participant_points: the future holds it.
FpEscape(i) ==
    /\ fp_task[i].st = "running"
    /\ fp_task' = [fp_task EXCEPT ![i].st = "done", ![i].out = "raised"]
    /\ UNCHANGED <<fp_parts, fp_processed, fp_results, fp_nerrors, fp_pc>>
    /\ FpFrame

\* get_points has returned or raised inside the try; `processed += 1` reads
\* the counter ...
FpRead(i) ==
    /\ fp_task[i].st = "running"
    /\ \E o \in {"value", "caught"} :
         fp_task' = [fp_task EXCEPT ![i].st = "incr", ![i].out = o,
                                    ![i].local = fp_processed]
    /\ UNCHANGED <<fp_parts, fp_processed, fp_results, fp_nerrors, fp_pc>>
    /\ FpFrame

\* ... and stores it incremented; the task returns its tuple.
FpWrite(i) ==
    /\ fp_task[i].st = "incr"
    /\ fp_processed' = fp_task[i].local + 1
    /\ fp_task' = [fp_task EXCEPT ![i].st = "done", ![i].local = 0]
    /\ UNCHANGED <<fp_parts, fp_results, fp_nerrors, fp_pc>>
    /\ FpFrame

\* The body of the as_completed loop for one future: what it stores in
\* results and whether it appends to errors.
CollectResult(results, id, out) ==
    CASE out = "value" -> [results |-> Put(results, id, ValueOf(id)), err |-> 0]
      [] out = "caught" -> [results |-> Put(results, id, FallbackPoints), err |-> 1]
      [] out = "raised" -> [results |-> Put(results, id, FallbackPoints), err |-> 1]

\* as_completed yields a finished future.
FpCollect(i) ==
    /\ fp_pc = "collect"
    /\ fp_task[i].st = "done"
    /\ LET c == CollectResult(fp_results, fp_parts[i], fp_task[i].out)
       IN  /\ fp_results' = c.results
           /\ fp_nerrors' = fp_nerrors + c.err
    /\ fp_task' = [fp_task EXCEPT ![i].st = "collected"]
    /\ UNCHANGED <<fp_parts, fp_processed, fp_pc>>
    /\ FpFrame

\* The as_completed loop itself raises: the outer except logs it and the
\* executor is left.
FpAbort ==
    /\ fp_pc = "collect"
    /\ \E i \in DOMAIN fp_task : fp_task[i].st # "collected"
    /\ fp_pc' = "shutdown"
    /\ UNCHANGED <<fp_parts, fp_task, fp_processed, fp_results, fp_nerrors>>
    /\ FpFrame

\* Faulty variant: the defaults are not filled in.
FillDefaults_Skip(results, parts) == results

\* "Ensure we have a result for every participant"
FillDefaults(results, parts) ==
    [id \in DOMAIN results \cup {parts[i] : i \in DOMAIN parts} |->
        IF id \in DOMAIN results THEN results[id] ELSE FallbackPoints]

\* Leaving the `with` block waits for every task; then the defaults are
\* filled in and the map is returned.
FpReturn ==
    /\ \/ fp_pc = "shutdown"
       \/ fp_pc = "collect" /\ \A i \in DOMAIN fp_task : fp_task[i].st = "collected"
    /\ \A i \in DOMAIN fp_task : Finished(i)
    /\ fp_results' = FillDefaults(fp_results, fp_parts)
    /\ fp_pc' = "returned"
    /\ UNCHANGED <<fp_parts, fp_task, fp_processed, fp_nerrors>>
    /\ FpFrame

NextFetch ==
    \/ \E i \in DOMAIN fp_task : FpStart(i)
    \/ \E i \in DOMAIN fp_task : FpEscape(i)
    \/ \E i \in DOMAIN fp_task : FpRead(i)
    \/ \E i \in DOMAIN fp_task : FpWrite(i)
    \/ \E i \in DOMAIN fp_task : FpCollect(i)
    \/ FpAbort
    \/ FpReturn

SpecFetch == InitFetch /\ [][NextFetch]_vars

\* The worker threads are scheduled and every task ends (get_points
\* returns), so a step that can be taken is taken.
SpecFetchFair == SpecFetch /\ WF_vars(NextFetch)

\* get_points of one task never returns: the task keeps its worker thread
\* and its future never completes.
Hung == {i \in DOMAIN fp_task : fp_task[i].st = "hung"}
FpHang(i) ==
    /\ fp_task[i].st = "running"
    /\ Hung = {}
    /\ fp_task' = [fp_task EXCEPT ![i].st = "hung"]
    /\ UNCHANGED <<fp_parts, fp_processed, fp_results, fp_nerrors, fp_pc>>
    /\ FpFrame

\* The pool when at most one of its tasks hangs.
NextFetchHang ==
    \/ \E i \in DOMAIN fp_task : FpStart(i)
    \/ \E i \in DOMAIN fp_task : FpEscape(i)
    \/ \E i \in DOMAIN fp_task : FpRead(i)
    \/ \E i \in DOMAIN fp_task : FpWrite(i)
    \/ \E i \in DOMAIN fp_task : FpCollect(i)
    \/ \E i \in DOMAIN fp_task : FpHang(i)
    \/ FpAbort
    \/ FpReturn

\* Every thread that can run does run; a hung task has no step to take.
SpecFetchHang == InitFetch /\ [][NextFetchHang]_vars /\ WF_vars(NextFetchHang)

-----------------------------------------------------------------------------
(* ProcessingJob: the upload handlers                                      *)

FileId(ts, u) == [ts |-> ts, user |-> u]

DigitStr(d) ==
    CASE d = 0 -> "0" [] d = 1 -> "1" [] d = 2 -> "2" [] d = 3 -> "3" [] d = 4 -> "4"
      [] d = 5 -> "5" [] d = 6 -> "6" [] d = 7 -> "7" [] d = 8 -> "8" [] d = 9 -> "9"

\* The names and profile URLs of the uploaded rows, and the page served for
\* the k-th profile on day t: it shows 20 + k + t points in its league badge.
Names ==
    <<"name01", "name02", "name03", "name04", "name05", "name06",
      "name07", "name08", "name09", "name10", "name11">>
Urls ==
    <<"https://profile/01", "https://profile/02", "https://profile/03",
      "https://profile/04", "https://profile/05", "https://profile/06",
      "https://profile/07", "https://profile/08", "https://profile/09",
      "https://profile/10", "https://profile/11">>
ProfilePoints(k, t) == 20 + k + t
ProfilePage(k, t) ==
    <<Node("div", "profile-league",
           <<TagKid("strong", "",
                    <<DigitStr(ProfilePoints(k, t) \div 10),
                      DigitStr(ProfilePoints(k, t) % 10), " ", "points">>)>>)>>

\* The profiles whose host answers no request.
DownProfiles == {Urls[2]}

Row(name, profile, mail) == [Name |-> name, profile |-> profile, mail |-> mail]

\* An uploaded file of n rows; its third row has no profile.
Csv(n) ==
    [columns |-> {"Name", "profile", "mail"},
     rows |-> [k \in 1..n |->
                 Row(<<Names[k]>>, IF k = 3 THEN << >> ELSE <<Urls[k]>>, << >>)]]
\* Three batches (5, 5, 1).
CsvThreeBatches == Csv(11)

\* validate_csv: (is_valid, message)
validate_csv(csv) ==
    IF ~({"Name", "profile"} \subseteq csv.columns) THEN FALSE
    ELSE \A i \in 1..Len(csv.rows) : Len(csv.rows[i].Name) > 0

\* A warning or error message: its kind and the row, participant or batch
\* it names (0 when it names none).
Msg(kind, ref) == [kind |-> kind, ref |-> ref]

\* The JSON answer of a handler, as far as the claims read it.  The message
\* is kept for the two fixed refusal texts and is "none" otherwise.
Response(success, canContinue) ==
    [success |-> success, canContinue |-> canContinue, results |-> << >>,
     totalParticipants |-> 0, message |-> "none"]

\* jsonify({'success': False, 'message': ...}) before anything is done
Rejection(message) == [Response(FALSE, FALSE) EXCEPT !.message = message]
InvalidFileId == "Invalid or expired file ID"
InvalidBatchNumber == "Invalid batch number"

\* Faulty variant: the owner of the job is not compared with the caller.
Refused_AnyAccount(u, f) == f \notin DOMAIN processing_state

\* `file_id not in processing_state or processing_state[file_id]['user_id'] != g.user.id`
Refused(u, f) ==
    f \notin DOMAIN processing_state \/ processing_state[f].user_id # u

NewJob(u, csv) ==
    [user_id |-> u, csv |-> csv, status |-> "pending", participants |-> << >>,
     results |-> EmptyMap, warnings |-> << >>, errors |-> << >>, batches |-> << >>]

\* A request being served holds references to the job's dict and to one of
\* its batch dicts.  A new upload under the same file id replaces the job's
\* dict, and a new parse replaces its batches: the request then writes to
\* objects the registry no longer holds.
OrphanState(r) == [r EXCEPT !.stale_state = TRUE, !.stale_batch = TRUE]
OrphanBatch(r) == [r EXCEPT !.stale_batch = TRUE]

\* Nothing outside the job handlers changes while they run.
JobFrame == UNCHANGED <<gpVars, fpVars, auxVars>>

\* upload_csv: the file is saved and a pending job registered under
\* <timestamp>_<user id>.
Upload(u, ts, csv) ==
    /\ processing_state' =
           [f \in DOMAIN processing_state \cup {FileId(ts, u)} |->
               IF f = FileId(ts, u) THEN NewJob(u, csv) ELSE processing_state[f]]
    /\ inflight' = {IF r.file = FileId(ts, u) THEN OrphanState(r) ELSE r : r \in inflight}
    /\ resp' = Response(TRUE, FALSE)
    /\ UNCHANGED <<db_participants, db_history, db_last_refresh>>
    /\ JobFrame

\* api_validate_csv
Validate(u, f) ==
    /\ IF Refused(u, f)
       THEN /\ resp' = Rejection(InvalidFileId)
            /\ UNCHANGED processing_state
       ELSE LET state == processing_state[f]
            IN  IF validate_csv(state.csv)
                THEN /\ processing_state' = [processing_state EXCEPT ![f].status = "validated"]
                     /\ resp' = Response(TRUE, FALSE)
                ELSE /\ Len(state.errors) < MaxErrors
                     /\ processing_state' =
                            [processing_state EXCEPT
                                ![f].status = "error",
                                ![f].errors = Append(state.errors, Msg("invalid_csv", 0))]
                     /\ resp' = Response(FALSE, FALSE)
    /\ UNCHANGED <<db_participants, db_history, db_last_refresh, inflight>>
    /\ JobFrame

MAX_BATCH_SIZE == 5

Min(a, b) == IF a < b THEN a ELSE b
MaxOf(S) == CHOOSE x \in S : \A y \in S : y <= x

\* Faulty variant: only full batches are made.
SplitBatches_FullOnly(participants) ==
    [b \in 1..(Len(participants) \div MAX_BATCH_SIZE) |->
        [participants |-> SubSeq(participants, MAX_BATCH_SIZE * (b - 1) + 1, MAX_BATCH_SIZE * b),
         status |-> "pending",
         results |-> EmptyMap]]

\* The batches of api_parse_participants:
\* participants[i:i+MAX_BATCH_SIZE] for i in range(0, len, MAX_BATCH_SIZE)
SplitBatches(participants) ==
    LET n == Len(participants)
        count == (n + MAX_BATCH_SIZE - 1) \div MAX_BATCH_SIZE
    IN  [b \in 1..count |->
            [participants |-> SubSeq(participants, MAX_BATCH_SIZE * (b - 1) + 1,
                                     Min(MAX_BATCH_SIZE * b, n)),
             status |-> "pending",
             results |-> EmptyMap]]

\* Faulty variant: the placeholder lacks the marker.
PlaceholderUrl_NoMarker(name) == <<"NO_PROFILE", "_">> \o name

\* "INVALID_PROFILE_URL_" + name
PlaceholderUrl(name) == <<"INVALID_PROFILE_URL", "_">> \o name

\* Participant.query.filter_by(profile_url=..., user_id=...).first()
FindParticipant(db, url, u) ==
    LET hits == {id \in DOMAIN db : db[id].profile_url = url /\ db[id].user_id = u}
    IN  IF hits = {} THEN 0 ELSE CHOOSE id \in hits : \A other \in hits : id <= other

NextId(db) == IF DOMAIN db = {} THEN 1 ELSE MaxOf(DOMAIN db) + 1

\* The row loop of api_parse_participants from row i on.  acc holds the
\* table, the participants list and the job's warnings and errors so far.
RECURSIVE ParseRows(_, _, _, _)
ParseRows(csv, i, u, acc) ==
    IF i > Len(csv.rows) THEN acc
    ELSE IF "profile" \notin csv.columns
    THEN \* row['profile'] raises KeyError: the row is reported and skipped
         ParseRows(csv, i + 1, u,
                   [acc EXCEPT !.errors = Append(@, Msg("row_error", i + 1))])
    ELSE LET row == csv.rows[i]
             blank == Len(Strip(row.profile)) = 0
             url == IF blank THEN PlaceholderUrl(row.Name) ELSE Strip(row.profile)
             found == FindParticipant(acc.db, url, u)
             id == IF found = 0 THEN NextId(acc.db) ELSE found
             old == IF found = 0
                    THEN [name |-> row.Name, email |-> row.mail, profile_url |-> url,
                          current_points |-> 1, user_id |-> u]
                    ELSE acc.db[found]
             new == [old EXCEPT !.name = row.Name,
                                !.email = IF Len(row.mail) > 0 THEN row.mail ELSE @]
         IN  ParseRows(csv, i + 1, u,
                 [db |-> Put(acc.db, id, new),
                  participants |-> Append(acc.participants,
                                          [id |-> id, name |-> new.name,
                                           profile_url |-> new.profile_url,
                                           email |-> new.email]),
                  warnings |-> IF blank
                               THEN Append(acc.warnings, Msg("placeholder", i + 1))
                               ELSE acc.warnings,
                  errors |-> acc.errors])

\* api_parse_participants
Parse(u, f) ==
    /\ IF Refused(u, f)
       THEN /\ resp' = Rejection(InvalidFileId)
            /\ UNCHANGED <<processing_state, db_participants, inflight>>
       ELSE LET state == processing_state[f]
                done == ParseRows(state.csv, 1, u,
                                  [db |-> db_participants, participants |-> << >>,
                                   warnings |-> state.warnings, errors |-> state.errors])
            IN  /\ Len(done.warnings) <= MaxWarnings
                /\ Len(done.errors) <= MaxErrors
                /\ db_participants' = done.db
                /\ processing_state' =
                       [processing_state EXCEPT
                           ![f].participants = done.participants,
                           ![f].batches = SplitBatches(done.participants),
                           ![f].status = "parsed",
                           ![f].warnings = done.warnings,
                           ![f].errors = done.errors]
                /\ inflight' = {IF r.file = f THEN OrphanBatch(r) ELSE r : r \in inflight}
                /\ resp' = Response(TRUE, FALSE)
    /\ UNCHANGED <<db_history, db_last_refresh>>
    /\ JobFrame

\* api_parse_participants when reading the file or the backup raises: the
\* outer except marks the job and rolls back.
ParseFail(u, f) ==
    /\ ~Refused(u, f)
    /\ Len(processing_state[f].errors) < MaxErrors
    /\ processing_state' =
           [processing_state EXCEPT
               ![f].status = "error",
               ![f].errors = Append(@, Msg("parse_failed", 0))]
    /\ resp' = Response(FALSE, FALSE)
    /\ UNCHANGED <<db_participants, db_history, db_last_refresh, inflight>>
    /\ JobFrame

\* Faulty variant: the batch number is not checked; a number outside the
\* job's batches gives a request that holds no participants.
ScrapeBegin_NoRangeCheck(u, f, batch_num) ==
    /\ IF Refused(u, f)
       THEN /\ resp' = Rejection(InvalidFileId)
            /\ UNCHANGED inflight
       ELSE LET inRange == batch_num \in 1..Len(processing_state[f].batches)
                r == [file |-> f, batch_num |-> batch_num,
                      parts |-> IF inRange
                                THEN [i \in 1..Len(processing_state[f].batches[batch_num].participants)
                                         |-> processing_state[f].batches[batch_num].participants[i].id]
                                ELSE << >>,
                      stale_state |-> FALSE, stale_batch |-> FALSE]
            IN  /\ Cardinality(inflight) < MaxInflight
                /\ r \notin inflight
                /\ inflight' = inflight \cup {r}
                /\ UNCHANGED resp
    /\ UNCHANGED <<processing_state, db_participants, db_history, db_last_refresh>>
    /\ JobFrame

\* api_scrape_batch up to `participants = batch['participants']`: the
\* request is refused, or holds the job's dict and the batch's dict while
\* the profiles are fetched.
ScrapeBegin(u, f, batch_num) ==
    /\ IF Refused(u, f)
       THEN /\ resp' = Rejection(InvalidFileId)
            /\ UNCHANGED inflight
       ELSE IF batch_num < 1 \/ batch_num > Len(processing_state[f].batches)
       THEN /\ resp' = Rejection(InvalidBatchNumber)
            /\ UNCHANGED inflight
       ELSE LET r == [file |-> f, batch_num |-> batch_num,
                      parts |-> [i \in 1..Len(processing_state[f].batches[batch_num].participants)
                                    |-> processing_state[f].batches[batch_num].participants[i].id],
                      stale_state |-> FALSE, stale_batch |-> FALSE]
            IN  /\ Cardinality(inflight) < MaxInflight
                /\ r \notin inflight
                /\ inflight' = inflight \cup {r}
                /\ UNCHANGED resp
    /\ UNCHANGED <<processing_state, db_participants, db_history, db_last_refresh>>
    /\ JobFrame

\* What the fetches of get_points do for a profile URL on day t: every attempt
\* times out when its host is down (or unknown), else the first serves its page.
NetOutcomes(url, t) ==
    LET hits == {j \in 1..Len(Urls) : url = <<Urls[j]>>}
    IN  IF hits = {} \/ \E j \in hits : Urls[j] \in DownProfiles THEN << >>
        ELSE <<PageOutcome(ProfilePage(CHOOSE j \in hits : TRUE, t))>>

\* points = get_points(participant.profile_url)
ScrapePoints(row) ==
    get_points(StrLink(row.profile_url), NetOutcomes(row.profile_url, now))

\* The loop of api_scrape_batch over the ids of a batch: batch_results and
\* the warnings it collects.
RECURSIVE ScrapeLoop(_, _, _, _)
ScrapeLoop(parts, i, db, acc) ==
    IF i > Len(parts) THEN acc
    ELSE IF parts[i] \notin DOMAIN db THEN ScrapeLoop(parts, i + 1, db, acc)
    ELSE LET points == ScrapePoints(db[parts[i]])
         IN  ScrapeLoop(parts, i + 1, db,
                 [results |-> Put(acc.results, parts[i], points),
                  warnings |-> IF points <= 1
                               THEN Append(acc.warnings, Msg("low_points", parts[i]))
                               ELSE acc.warnings])

\* Faulty variant: the warnings of the batch are dropped.
CommitBatch_NoWarnings(state, r, done) ==
    LET withBatch ==
            IF r.stale_batch THEN state
            ELSE [state EXCEPT !.batches[r.batch_num].status = "completed",
                               !.batches[r.batch_num].results = done.results]
    IN  [withBatch EXCEPT !.results = Update(@, done.results)]

\* What the end of a successful api_scrape_batch stores in the job.
CommitBatch(state, r, done) ==
    LET withBatch ==
            IF r.stale_batch THEN state
            ELSE [state EXCEPT !.batches[r.batch_num].status = "completed",
                               !.batches[r.batch_num].results = done.results]
    IN  [withBatch EXCEPT !.results = Update(@, done.results),
                          !.warnings = @ \o done.warnings]

\* api_scrape_batch from the fetches to the success response.
ScrapeEnd(r) ==
    /\ r \in inflight
    /\ LET done == ScrapeLoop(r.parts, 1, db_participants,
                               [results |-> EmptyMap, warnings |-> << >>])
       IN  /\ resp' = Response(TRUE, FALSE)
           /\ IF r.stale_state THEN UNCHANGED processing_state
              ELSE /\ Len(processing_state[r.file].warnings) + Len(done.warnings) <= MaxWarnings
                   /\ processing_state' =
                          [processing_state EXCEPT ![r.file] = CommitBatch(@, r, done)]
    /\ inflight' = inflight \ {r}
    /\ UNCHANGED <<db_participants, db_history, db_last_refresh>>
    /\ JobFrame

\* A failure handler that rolls the job's results back.
FailBatch_Rollback(state, r) ==
    LET withBatch ==
            IF r.stale_batch THEN state
            ELSE [state EXCEPT !.batches[r.batch_num].status = "failed"]
    IN  [withBatch EXCEPT !.errors = Append(@, Msg("batch_failed", r.batch_num)),
                          !.results = EmptyMap]

\* What the except branch of api_scrape_batch stores in the job.
FailBatch(state, r) ==
    LET withBatch ==
            IF r.stale_batch THEN state
            ELSE [state EXCEPT !.batches[r.batch_num].status = "failed"]
    IN  [withBatch EXCEPT !.errors = Append(@, Msg("batch_failed", r.batch_num))]

\* api_scrape_batch when a query of the loop raises (the store fails).
ScrapeFail(r) ==
    /\ r \in inflight
    /\ resp' = Response(FALSE, TRUE)
    /\ IF r.stale_state THEN UNCHANGED processing_state
       ELSE /\ Len(processing_state[r.file].errors) < MaxErrors
            /\ processing_state' = [processing_state EXCEPT ![r.file] = FailBatch(@, r)]
    /\ inflight' = inflight \ {r}
    /\ UNCHANGED <<db_participants, db_history, db_last_refresh>>
    /\ JobFrame

HistoryOf(h, id) == IF id \in DOMAIN h THEN h[id] ELSE << >>

\* The participants api_finalize_results writes: those of results that are
\* still in the table.
Finalized(results, db) == DOMAIN results \cap DOMAIN db

\* Faulty variant: the history rows are added, current_points is left.
FinalizePoints_Unchanged(results, db) == db

\* The loop of api_finalize_results: current_points of each participant.
FinalizePoints(results, db) ==
    [id \in DOMAIN db |->
        IF id \in DOMAIN results THEN [db[id] EXCEPT !.current_points = results[id]]
        ELSE db[id]]

\* The loop of api_finalize_results: one new history row per participant.
FinalizeHistory(results, db, h) ==
    [id \in DOMAIN h \cup Finalized(results, db) |->
        IF id \in Finalized(results, db)
        THEN Append(HistoryOf(h, id), results[id])
        ELSE h[id]]

\* A row of last_refresh: refresh_date (default utcnow) and the handler that
\* added it.
Marker(t, by) == [at |-> t, by |-> by]

\* "Record this as the first refresh if it doesn't exist"
FinalizeMarker(markers, t) ==
    IF Len(markers) = 0 THEN <<Marker(t, "finalize")>> ELSE markers

\* Faulty variant: the rows are returned in the order of the loop.
FinalizeRows_Unsorted(results, db) ==
    [i \in 1..Cardinality(Finalized(results, db)) |->
        LET id == Ascending(Finalized(results, db))[i]
        IN  ReportRow(id, results[id], 0, 0, TRUE)]

\* The list `results` of the finalize response, sorted by current_points
\* descending.  weekly_points is always the text 'N/A (First upload)'.
FinalizeRows(results, db) ==
    SortedRows([id \in Finalized(results, db) |-> ReportRow(id, results[id], 0, 0, TRUE)],
               Finalized(results, db), "points")

FinalizeResponse(results, db) ==
    [success |-> TRUE, canContinue |-> FALSE,
     results |-> FinalizeRows(results, db),
     totalParticipants |-> Cardinality(Finalized(results, db)), message |-> "none"]

\* api_finalize_results
Finalize(u, f) ==
    /\ IF Refused(u, f)
       THEN /\ resp' = Rejection(InvalidFileId)
            /\ UNCHANGED <<processing_state, db_participants, db_history, db_last_refresh>>
       ELSE LET state == processing_state[f]
            IN  /\ \A id \in Finalized(state.results, db_participants) :
                       Len(HistoryOf(db_history, id)) < MaxHistory
                /\ db_participants' = FinalizePoints(state.results, db_participants)
                /\ db_history' = FinalizeHistory(state.results, db_participants, db_history)
                /\ db_last_refresh' = FinalizeMarker(db_last_refresh, now)
                /\ processing_state' = [processing_state EXCEPT ![f].status = "completed"]
                /\ resp' = FinalizeResponse(state.results, db_participants)
    /\ UNCHANGED inflight
    /\ JobFrame

\* api_finalize_results when a commit raises: the first commit (nothing is
\* stored), or the commit of the new last_refresh row (the points are
\* stored, the row is not).  The handler appends the error, rolls back and
\* answers success False; it leaves state['status'] as it is.
FinalizeFail(u, f) ==
    /\ ~Refused(u, f)
    /\ Len(processing_state[f].errors) < MaxErrors
    /\ LET state == processing_state[f]
       IN  \/ UNCHANGED <<db_participants, db_history>>
           \/ /\ Len(db_last_refresh) = 0
              /\ Finalized(state.results, db_participants) # {}
              /\ \A id \in Finalized(state.results, db_participants) :
                     Len(HistoryOf(db_history, id)) < MaxHistory
              /\ db_participants' = FinalizePoints(state.results, db_participants)
              /\ db_history' = FinalizeHistory(state.results, db_participants, db_history)
    /\ processing_state' =
           [processing_state EXCEPT ![f].errors = Append(@, Msg("finalize_failed", 0))]
    /\ resp' = Response(FALSE, FALSE)
    /\ UNCHANGED <<db_last_refresh, inflight>>
    /\ JobFrame

Init ==
    /\ GpIdle
    /\ FpIdle
    /\ JobIdle
    /\ AuxIdle

\* The inputs of the checked runs: account 1 uploads one file at second 1;
\* accounts 1 and 2 make requests, with that job's id or with an id no
\* upload made; batch numbers run from 0 to one past the last batch.
Users == {1, 2}
TheJob == FileId(1, 1)
RequestIds == {TheJob, FileId(0, 1)}
BatchNums(csv) == 0..(Len(SplitBatches(csv.rows)) + 1)

\* No request is being served.
Idle == inflight = {}

\* The uploaded file of the checked runs: three batches.
TheCsv == CsvThreeBatches

\* A server that serves one request at a time.
Next ==
    \/ Idle /\ TheJob \notin DOMAIN processing_state /\ Upload(1, 1, TheCsv)
    \/ \E u \in Users, f \in RequestIds : Idle /\ Validate(u, f)
    \/ \E u \in Users, f \in RequestIds : Idle /\ Parse(u, f)
    \/ \E u \in Users, f \in RequestIds, n \in BatchNums(TheCsv) : Idle /\ ScrapeBegin(u, f, n)
    \/ \E r \in inflight : ScrapeEnd(r)
    \/ \E r \in inflight : ScrapeFail(r)
    \/ \E u \in Users, f \in RequestIds : Idle /\ Finalize(u, f)
    \/ Idle /\ ParseFail(1, TheJob)

Spec == Init /\ [][Next]_vars

\* A threaded server: the owner's requests are served while others are in
\* flight.
NextThreaded ==
    \/ TheJob \notin DOMAIN processing_state /\ Upload(1, 1, TheCsv)
    \/ Parse(1, TheJob)
    \/ \E n \in BatchNums(TheCsv) : ScrapeBegin(1, TheJob, n)
    \/ \E r \in inflight : ScrapeEnd(r)
    \/ \E r \in inflight : ScrapeFail(r)

SpecThreaded == Init /\ [][NextThreaded]_vars

-----------------------------------------------------------------------------
(* HistoryLedger and RefreshGate: refresh_points and view_participants     *)

\* The page handlers leave the jobs and their requests alone.
WebFrame ==
    UNCHANGED <<gpVars, fpVars, sbVars, nrVars, processing_state, inflight, resp, parsing>>

\* timedelta(days=7)
RefreshDays == 7

\* Time passes.
TickDays == {3, 4}
Tick ==
    /\ \E d \in TickDays : now + d <= MaxDay /\ now' = now + d
    /\ UNCHANGED <<refreshing, parsing, rendered, gpVars, fpVars, sbVars, nrVars, jobVars>>

\* LastRefresh.query.order_by(LastRefresh.refresh_date.desc()).first()
LatestMarker(markers) ==
    markers[CHOOSE i \in 1..Len(markers) :
                \A j \in 1..Len(markers) : markers[i].at >= markers[j].at]

\* `last_refresh and (datetime.utcnow() - last_refresh.refresh_date) < timedelta(days=7)`
GateClosed(markers, t) ==
    Len(markers) > 0 /\ t - LatestMarker(markers).at < RefreshDays

\* Participant.query.filter_by(user_id=g.user.id).all(), as ids
UserParticipants(u, db) == {id \in DOMAIN db : db[id].user_id = u}

\* refresh_points up to the fetches: the cooldown gate, then the query of
\* the participants.  A request that passes both is in flight as q.
RefreshBegin(u, q) ==
    /\ \A r \in refreshing : r.req # q
    /\ IF GateClosed(db_last_refresh, now)
       THEN /\ rendered' = Page("cooldown", << >>)
            /\ UNCHANGED refreshing
       ELSE IF UserParticipants(u, db_participants) = {}
       THEN /\ rendered' = Page("no_participants", << >>)
            /\ UNCHANGED refreshing
       ELSE /\ refreshing' = refreshing \cup
                   {[req |-> q, user |-> u,
                     parts |-> [i \in 1..Cardinality(UserParticipants(u, db_participants)) |->
                                  LET id == Ascending(UserParticipants(u, db_participants))[i]
                                  IN  [id |-> id,
                                       profile_url |-> db_participants[id].profile_url]]]}
            /\ UNCHANGED rendered
    /\ UNCHANGED <<now, db_participants, db_history, db_last_refresh>>
    /\ WebFrame

\* all_results of refresh_points: the results of fetch_points_concurrently
\* for the batches that did not raise before all_results.update.
RefreshResults(parts, failed) ==
    LET batches == SplitBatches(parts)
        fetched == {i \in 1..Len(parts) :
                       \E b \in (1..Len(batches)) \ failed :
                           (b - 1) * MAX_BATCH_SIZE < i /\ i <= b * MAX_BATCH_SIZE}
    IN  [id \in {parts[i].id : i \in fetched} |->
            ScrapePoints(parts[CHOOSE i \in fetched : parts[i].id = id])]

\* One row of the results page: weekly_points = points - previous_points,
\* previous_points being the participant's current_points.
RefreshRow(id, points, participant) ==
    ReportRow(id, points, participant.current_points,
              points - participant.current_points, FALSE)

\* refresh_points from the fetches on: the batches in `failed` raise, those
\* in `late` at the commit that follows all_results.update, the others
\* before it.  If not all raise, the points and history rows are stored, a
\* new last_refresh row is added and the results are rendered sorted by
\* weekly_points.
RefreshEnd(r, failed, late) ==
    /\ r \in refreshing
    /\ failed \subseteq 1..Len(SplitBatches(r.parts))
    /\ late \subseteq failed
    /\ refreshing' = refreshing \ {r}
    /\ IF failed = 1..Len(SplitBatches(r.parts))
       THEN /\ rendered' = [Page("all_failed", << >>) EXCEPT !.failed = failed]
            /\ UNCHANGED <<db_participants, db_history, db_last_refresh>>
       ELSE LET all_results == RefreshResults(r.parts, failed \ late)
                stored == Finalized(all_results, db_participants)
            IN  /\ \A id \in stored : Len(HistoryOf(db_history, id)) < MaxHistory
                /\ Len(db_last_refresh) < MaxMarkers
                /\ db_participants' = FinalizePoints(all_results, db_participants)
                /\ db_history' = FinalizeHistory(all_results, db_participants, db_history)
                /\ db_last_refresh' = Append(db_last_refresh, Marker(now, "refresh"))
                /\ rendered' =
                       [Page("results",
                             SortedRows([id \in stored |->
                                            RefreshRow(id, all_results[id], db_participants[id])],
                                        stored, "weekly"))
                        EXCEPT !.failed = failed]
    /\ UNCHANGED now
    /\ WebFrame

\* sorted(participant.history, key=lambda x: x.date_recorded, reverse=True):
\* the rows of a participant are kept oldest first.
Reverse(seq) == [i \in 1..Len(seq) |-> seq[Len(seq) + 1 - i]]

\* One row of the participants page.
ViewRow(id, participant, history) ==
    LET history_sorted == Reverse(history)
    IN  IF Len(history_sorted) > 1
        THEN ReportRow(id, participant.current_points, history_sorted[2],
                       history_sorted[1] - history_sorted[2], FALSE)
        ELSE IF Len(history_sorted) = 1
        THEN ReportRow(id, participant.current_points, 0, history_sorted[1], FALSE)
        ELSE ReportRow(id, participant.current_points, 0, 0, FALSE)

\* view_participants
View(u) ==
    /\ rendered' =
           Page("participants",
                SortedRows([id \in UserParticipants(u, db_participants) |->
                               ViewRow(id, db_participants[id], HistoryOf(db_history, id))],
                           UserParticipants(u, db_participants), "points"))
    /\ UNCHANGED <<now, refreshing, db_participants, db_history, db_last_refresh>>
    /\ WebFrame

\* The uploaded file of the ledger runs: one batch of two rows, the second
\* profile down.
CsvOneBatch == Csv(2)

\* The job of the ledger runs is at status s.
JobAt(s) == TheJob \in DOMAIN processing_state /\ processing_state[TheJob].status = s

\* One account uploads a file, works through its job in order (finalizing
\* as often as it likes) and views and refreshes its participants while time
\* passes; refresh requests may overlap.
NextLedger ==
    \/ Idle /\ TheJob \notin DOMAIN processing_state /\ Upload(1, 1, CsvOneBatch)
    \/ Idle /\ JobAt("pending") /\ Parse(1, TheJob)
    \/ Idle /\ JobAt("parsed") /\ ScrapeBegin(1, TheJob, 1)
    \/ \E r \in inflight : ScrapeEnd(r)
    \/ Idle /\ Finalize(1, TheJob)
    \/ Idle /\ FinalizeFail(1, TheJob)
    \/ Tick
    \/ \E q \in 1..MaxRefreshing : RefreshBegin(1, q)
    \/ \E r \in refreshing, failed \in SUBSET {1} : RefreshEnd(r, failed, {})
    \/ View(1)

SpecLedger == Init /\ [][NextLedger]_vars

\* The uploaded file of the refresh runs: two batches (5, 1).
CsvTwoBatches == Csv(6)
RefreshBatches == 1..Len(SplitBatches(CsvTwoBatches.rows))

\* One account uploads and parses a file of two batches, then views and
\* refreshes its participants while time passes; batches of a refresh may
\* raise.
NextRefreshJob ==
    \/ Idle /\ TheJob \notin DOMAIN processing_state /\ Upload(1, 1, CsvTwoBatches)
    \/ Idle /\ JobAt("pending") /\ Parse(1, TheJob)
    \/ Tick
    \/ refreshing = {} /\ RefreshBegin(1, 1)
    \/ \E r \in refreshing, failed \in SUBSET RefreshBatches, late \in SUBSET RefreshBatches :
           RefreshEnd(r, failed, late)
    \/ View(1)

SpecRefreshJob == Init /\ [][NextRefreshJob]_vars

-----------------------------------------------------------------------------
(* delete_all_participants, with two accounts in the store                 *)

\* Faulty variant: the history rows of every account are deleted.
PurgeHistory_All(u, db, h) == EmptyMap

\* PointsHistory.query.filter_by(participant_id=participant.id).delete() for
\* every participant of the account.
PurgeHistory(u, db, h) ==
    [id \in DOMAIN h \ UserParticipants(u, db) |-> h[id]]

\* Participant.query.filter_by(user_id=g.user.id).delete()
PurgeParticipants(u, db) ==
    [id \in DOMAIN db \ UserParticipants(u, db) |-> db[id]]

\* delete_all_participants: nothing to delete, the deletion, or a failure
\* that is rolled back.
DeleteAll(u) ==
    /\ \/ /\ UserParticipants(u, db_participants) = {}
          /\ rendered' = Page("nothing_to_delete", << >>)
          /\ UNCHANGED <<db_participants, db_history>>
       \/ /\ UserParticipants(u, db_participants) # {}
          /\ rendered' = Page("deleted", << >>)
          /\ db_history' = PurgeHistory(u, db_participants, db_history)
          /\ db_participants' = PurgeParticipants(u, db_participants)
       \/ /\ UserParticipants(u, db_participants) # {}
          /\ rendered' = Page("delete_failed", << >>)
          /\ UNCHANGED <<db_participants, db_history>>
    /\ UNCHANGED <<now, refreshing, db_last_refresh>>
    /\ WebFrame

\* The store at start-up holds a participant of account 2 with one history
\* row, left by an earlier run of the server.
OtherParticipant ==
    [name |-> <<Names[4]>>, email |-> << >>, profile_url |-> <<Urls[4]>>,
     current_points |-> ProfilePoints(4, 0), user_id |-> 2]
InitPurge ==
    /\ GpIdle
    /\ FpIdle
    /\ AuxIdle
    /\ processing_state = EmptyMap
    /\ db_participants = Put(EmptyMap, 1, OtherParticipant)
    /\ db_history = Put(EmptyMap, 1, <<ProfilePoints(4, 0)>>)
    /\ db_last_refresh = << >>
    /\ inflight = {}
    /\ resp = NoResponse

\* Account 1 works through one job and both accounts refresh and delete
\* their participants while time passes.
NextPurge ==
    \/ Idle /\ TheJob \notin DOMAIN processing_state /\ Upload(1, 1, CsvOneBatch)
    \/ Idle /\ JobAt("pending") /\ Validate(1, TheJob)
    \/ Idle /\ JobAt("validated") /\ Parse(1, TheJob)
    \/ Idle /\ JobAt("parsed") /\ ScrapeBegin(1, TheJob, 1)
    \/ \E r \in inflight : ScrapeEnd(r)
    \/ Idle /\ Finalize(1, TheJob)
    \/ Tick
    \/ \E u \in Users : refreshing = {} /\ RefreshBegin(u, 1)
    \/ \E r \in refreshing, failed \in SUBSET {1} : RefreshEnd(r, failed, {})
    \/ \E u \in Users : DeleteAll(u)

SpecPurge == InitPurge /\ [][NextPurge]_vars

-----------------------------------------------------------------------------
(* api_parse_participants served by several threads, row by row            *)

\* Nothing but the job, the participants table and the parse requests
\* changes while a parse runs.
ParseFrame ==
    UNCHANGED <<gpVars, fpVars, sbVars, nrVars, now, refreshing, rendered,
                db_history, db_last_refresh, inflight>>

\* The request reads the file and starts the row loop.
ParseOpen(u, f, q) ==
    /\ \A r \in parsing : r.req # q
    /\ IF Refused(u, f)
       THEN /\ resp' = Rejection(InvalidFileId)
            /\ UNCHANGED parsing
       ELSE /\ parsing' = parsing \cup
                   {[req |-> q, user |-> u, file |-> f, csv |-> processing_state[f].csv,
                     row |-> 1, phase |-> "find", found |-> 0, participants |-> << >>]}
            /\ UNCHANGED resp
    /\ UNCHANGED <<processing_state, db_participants>>
    /\ ParseFrame

\* The profile reference of the row a request is at.
RowUrl(r) ==
    LET row == r.csv.rows[r.row]
    IN  IF Len(Strip(row.profile)) = 0 THEN PlaceholderUrl(row.Name) ELSE Strip(row.profile)

\* One row, up to the query: the placeholder and its warning, then
\* Participant.query.filter_by(profile_url=..., user_id=...).first()
ParseFind(r) ==
    /\ r \in parsing
    /\ r.phase = "find"
    /\ r.row <= Len(r.csv.rows)
    /\ IF Len(Strip(r.csv.rows[r.row].profile)) = 0 /\ r.file \in DOMAIN processing_state
       THEN /\ Len(processing_state[r.file].warnings) < MaxWarnings
            /\ processing_state' =
                   [processing_state EXCEPT
                       ![r.file].warnings = Append(@, Msg("placeholder", r.row + 1))]
       ELSE UNCHANGED processing_state
    /\ parsing' = (parsing \ {r}) \cup
           {[r EXCEPT !.phase = "store",
                      !.found = FindParticipant(db_participants, RowUrl(r), r.user)]}
    /\ UNCHANGED <<db_participants, resp>>
    /\ ParseFrame

\* One row, from the query on: a participant that was not found is added
\* and committed, name and e-mail are updated, and the row joins the list.
ParseStore(r) ==
    /\ r \in parsing
    /\ r.phase = "store"
    /\ r.found = 0 => Cardinality(DOMAIN db_participants) < MaxParts
    /\ LET row == r.csv.rows[r.row]
           id == IF r.found = 0 THEN NextId(db_participants) ELSE r.found
           old == IF r.found = 0 \/ r.found \notin DOMAIN db_participants
                  THEN [name |-> row.Name, email |-> row.mail, profile_url |-> RowUrl(r),
                        current_points |-> 1, user_id |-> r.user]
                  ELSE db_participants[r.found]
           new == [old EXCEPT !.name = row.Name,
                              !.email = IF Len(row.mail) > 0 THEN row.mail ELSE @]
       IN  /\ db_participants' = Put(db_participants, id, new)
           /\ parsing' = (parsing \ {r}) \cup
                  {[r EXCEPT !.phase = "find", !.row = r.row + 1, !.found = 0,
                             !.participants =
                                 Append(@, [id |-> id, name |-> new.name,
                                            profile_url |-> new.profile_url,
                                            email |-> new.email])]}
    /\ UNCHANGED <<processing_state, resp>>
    /\ ParseFrame

\* After the last row: the batches are made and the job is marked parsed.
ParseClose(r) ==
    /\ r \in parsing
    /\ r.phase = "find"
    /\ r.row > Len(r.csv.rows)
    /\ processing_state' =
           IF r.file \in DOMAIN processing_state
           THEN [processing_state EXCEPT
                    ![r.file].participants = r.participants,
                    ![r.file].batches = SplitBatches(r.participants),
                    ![r.file].status = "parsed"]
           ELSE processing_state
    /\ parsing' = parsing \ {r}
    /\ resp' = Response(TRUE, FALSE)
    /\ UNCHANGED db_participants
    /\ ParseFrame

\* One account uploads a file of two rows and sends parse requests for it
\* that the server's threads serve at the same time.
NextImport ==
    \/ TheJob \notin DOMAIN processing_state /\ Upload(1, 1, CsvOneBatch)
    \/ \E q \in 1..MaxParsing : ParseOpen(1, TheJob, q)
    \/ \E r \in parsing : ParseFind(r)
    \/ \E r \in parsing : ParseStore(r)
    \/ \E r \in parsing : ParseClose(r)

SpecImport == Init /\ [][NextImport]_vars

-----------------------------------------------------------------------------
(* The job operations asked for by two accounts, under known and unknown   *)
(* file ids                                                                *)

\* processing_page: the flash and the redirect to the index, or the
\* processing template.
ProcessingPage(u, f) ==
    /\ rendered' = IF Refused(u, f) THEN Page(InvalidFileId, << >>)
                                   ELSE Page("processing", << >>)
    /\ UNCHANGED <<now, refreshing, db_participants, db_history, db_last_refresh>>
    /\ WebFrame

\* Account 1 uploads a file of two rows; both accounts then ask for every
\* job operation, under the job's id and under an id that names no job.
NextAccess ==
    \/ Idle /\ TheJob \notin DOMAIN processing_state /\ Upload(1, 1, CsvOneBatch)
    \/ \E u \in Users, f \in RequestIds : Idle /\ ProcessingPage(u, f)
    \/ \E u \in Users, f \in RequestIds : Idle /\ Validate(u, f)
    \/ \E u \in Users, f \in RequestIds : Idle /\ Parse(u, f)
    \/ \E u \in Users, f \in RequestIds, n \in BatchNums(CsvOneBatch) :
           Idle /\ ScrapeBegin(u, f, n)
    \/ \E r \in inflight : ScrapeEnd(r)
    \/ \E u \in Users, f \in RequestIds : Idle /\ Finalize(u, f)

SpecAccess == Init /\ [][NextAccess]_vars

-----------------------------------------------------------------------------
(* upload_csv called again and again                                       *)

\* The files that are uploaded: one row, two rows.
UploadedFiles == {Csv(1), CsvOneBatch}

\* datetime.utcnow().strftime('%Y%m%d%H%M%S') of an upload: the clock second,
\* never before the second of an earlier upload.
Stamps == {ts \in 1..MaxStamp : \A f \in DOMAIN processing_state : f.ts <= ts}

\* Two accounts upload files, any number per clock second, and validate and
\* parse the jobs they own.
NextUploads ==
    \/ \E u \in Users, ts \in Stamps, csv \in UploadedFiles : Upload(u, ts, csv)
    \/ \E f \in DOMAIN processing_state : Validate(processing_state[f].user_id, f)
    \/ \E f \in DOMAIN processing_state : Parse(processing_state[f].user_id, f)

SpecUploads == Init /\ [][NextUploads]_vars

-----------------------------------------------------------------------------
(* The batching of api_parse_participants and refresh_points               *)

\* The entries of the lists that are split; the split does not read them.
SplitItems == {1, 2}

InitSplit ==
    /\ GpIdle
    /\ FpIdle
    /\ JobIdle
    /\ NrIdle
    /\ WebIdle
    /\ sb_participants \in UNION {[1..n -> SplitItems] : n \in 0..MaxSplitLen}
    /\ sb_batches = << >>
    /\ sb_pc = "call"

\* for i in range(0, len(participants), MAX_BATCH_SIZE): participants[i:i+MAX_BATCH_SIZE]
Split ==
    /\ sb_pc = "call"
    /\ sb_batches' = SplitBatches(sb_participants)
    /\ sb_pc' = "done"
    /\ UNCHANGED <<sb_participants, gpVars, fpVars, jobVars, nrVars, webVars>>

NextSplit == Split

SpecSplit == InitSplit /\ [][NextSplit]_vars

-----------------------------------------------------------------------------
(* RefreshGate: next_refresh                                               *)

\* Times are in minutes.
MinutesPerDay == 24 * 60
MinutesPerHour == 60

Cooldown == RefreshDays * MinutesPerDay

\* next_refresh(), the clock reading now1 at its first read and now2 at
\* the read after the comparison.  timedelta.days is the floor of the days
\* and timedelta.seconds the non-negative rest.
NextRefresh(last, now1, now2) ==
    IF last = NoMarker THEN RefreshAnswer(TRUE, now1, FALSE, 0, 0, 0)
    ELSE IF last + Cooldown < now1 THEN RefreshAnswer(TRUE, now1, FALSE, 0, 0, 0)
    ELSE LET time_remaining == (last + Cooldown) - now2
         IN  RefreshAnswer(FALSE, last + Cooldown, TRUE,
                           time_remaining \div MinutesPerDay,
                           (time_remaining % MinutesPerDay) \div MinutesPerHour,
                           (time_remaining % MinutesPerDay) % MinutesPerHour)

\* The cooldown test of refresh_points on the same clock, in minutes: the
\* request goes on unless
\* `last_refresh and (datetime.utcnow() - last_refresh.refresh_date) < timedelta(days=7)`
RefreshProceeds(last, t) == ~(last # NoMarker /\ t - last < Cooldown)

\* The times of the last refresh and the minutes past a whole day at which
\* the query is made.
QueryLasts == {NoMarker, 0, 100}
QueryMinutes == {0, 1, 61, 1439}

InitQuery ==
    /\ GpIdle
    /\ FpIdle
    /\ JobIdle
    /\ SbIdle
    /\ WebIdle
    /\ nr_last \in QueryLasts
    /\ \E d \in 0..MaxQueryDays, m \in QueryMinutes :
           nr_now = (IF nr_last = NoMarker THEN 0 ELSE nr_last) + d * MinutesPerDay + m
    /\ nr_lag \in {0, 1}
    /\ nr_resp = NoAnswer
    /\ nr_pc = "call"

Query ==
    /\ nr_pc = "call"
    /\ nr_resp' = NextRefresh(nr_last, nr_now, nr_now + nr_lag)
    /\ nr_pc' = "done"
    /\ UNCHANGED <<nr_last, nr_now, nr_lag, gpVars, fpVars, jobVars, sbVars, webVars>>

NextQuery == Query

SpecQuery == InitQuery /\ [][NextQuery]_vars

-----------------------------------------------------------------------------
(* Claims about get_points                                                 *)

Retryable == {"timeout", "conn_error", "http_error"}

\* C2: whatever the fetches do, get_points makes at most max_retries + 1
\* fetches, never raises, and returns an integer.
C2_ResolveTotal ==
    /\ [](/\ gp_fetches <= max_retries + 1
          /\ gp_pc # "raised"
          /\ gp_pc = "done" => gp_result \in Nat)
    /\ <>(gp_pc = "done")

C2_Witness ==
    /\ gp_pc = "done"
    /\ gp_hist = <<"timeout", "http_error", "conn_error", "timeout">>
    /\ gp_result = FallbackPoints

\* The profile references C3 is about: empty, or holding the placeholder marker.
C3_InvalidRef ==
    \/ gp_link.s = << >>
    \/ \E i \in 1..Len(gp_link.s) : gp_link.s[i] = "INVALID_PROFILE_URL"

\* C3: for an empty or placeholder profile reference get_points returns the
\* fallback value on its first pass, having made no fetch.
C3_InvalidNoFetch ==
    C3_InvalidRef =>
        /\ gp_fetches = 0
        /\ gp_hist = << >>
        /\ \/ gp_pc = "loop" /\ gp_retries = 0
           \/ gp_pc = "done" /\ gp_result = FallbackPoints

C3_Witness ==
    /\ gp_pc = "done"
    /\ gp_link = StrLink(<<"INVALID_PROFILE_URL", "_", "Ann">>)
    /\ gp_fetches = 0

\* C4: a timeout, a connection error or a bad status is retried; a page
\* fetched after k <= max_retries such failures decides the result; the
\* fallback answers such failures only after max_retries + 1 of them.
C4_RetryThenValue ==
    LET n == Len(gp_hist)
        allFailed(k) == \A i \in 1..k : gp_hist[i] \in Retryable
    IN  /\ (n <= max_retries /\ allFailed(n) /\ ~IsInvalidLink(gp_link)) => gp_pc = "loop"
        /\ (n > 0 /\ allFailed(n) /\ gp_pc = "done") =>
               n = max_retries + 1 /\ gp_result = FallbackPoints
        /\ (n > 0 /\ allFailed(n - 1) /\ gp_hist[n] = "page"
               /\ ExtractPoints(gp_page).found) =>
               gp_pc = "done" /\ gp_result = ExtractPoints(gp_page).value

C4_Witness ==
    /\ gp_pc = "done"
    /\ gp_hist = <<"timeout", "conn_error", "http_error", "page">>
    /\ gp_result = 55

\* C5: a page in which no points are found, an empty body or any other
\* non-network error ends the resolver at once with the fallback value.
C5_NoRetryOnNotFound ==
    \A i \in 1..Len(gp_hist) :
        (\/ gp_hist[i] \in {"empty", "unexpected"}
         \/ gp_hist[i] = "page" /\ ~ExtractPoints(gp_page).found) =>
            /\ i = Len(gp_hist)
            /\ gp_pc = "done"
            /\ gp_result = FallbackPoints
            /\ gp_fetches = i

C5_Witness ==
    /\ gp_pc = "done"
    /\ gp_hist = <<"page">>
    /\ ~ExtractPoints(gp_page).found
    /\ gp_retries = 0
    /\ gp_result = FallbackPoints

\* C6: the result for a fetched page is the value of the first of the four
\* approaches, in their order, that finds points, and the fallback only if
\* none does.
C6_StrategyOrder ==
    (gp_pc = "done" /\ Len(gp_hist) > 0 /\ gp_hist[Len(gp_hist)] = "page") =>
        LET a1 == Approach1(gp_page)
            a2 == Approach2(gp_page)
            a3 == Approach3(gp_page)
            a4 == Approach4(gp_page)
        IN  IF a1.found THEN gp_result = a1.value
            ELSE IF a2.found THEN gp_result = a2.value
            ELSE IF a3.found THEN gp_result = a3.value
            ELSE IF a4.found THEN gp_result = a4.value
            ELSE gp_result = FallbackPoints

C6_Witness ==
    /\ gp_pc = "done"
    /\ gp_hist = <<"page">>
    /\ Approach1(gp_page).found
    /\ Approach3(gp_page).found
    /\ Approach1(gp_page).value # Approach3(gp_page).value
    /\ gp_result = Approach1(gp_page).value

\* The number of the first "<number> points" match of a text: the run of
\* digits that ends right before the word, a space allowed between them.
NumberEndingAt(text, e) ==
    LET start == CHOOSE b \in 1..(e + 1) :
                     /\ \A i \in b..e : text[i] \in DigitChars
                     /\ b = 1 \/ text[b - 1] \notin DigitChars
    IN  SubSeq(text, start, e)
NumberBefore(text, p) ==
    NumberEndingAt(text, IF p > 1 /\ text[p - 1] = " " THEN p - 2 ELSE p - 1)
FirstPointsNumber(text) ==
    LET matches == {p \in 1..Len(text) :
                       HasSub(Lower(text[p]), "point") /\ Len(NumberBefore(text, p)) > 0}
    IN  IF matches = {} THEN NotFound
        ELSE Found(IntOf(NumberBefore(text, CHOOSE p \in matches : \A q \in matches : p <= q)))

\* The strings approach 3 reads: those that mention points and hold a digit.
PointsTexts(page) ==
    SelectSeq([i \in 1..Len(StringRefs(page, 1)) |->
                  LET r == StringRefs(page, 1)[i] IN page[r.top].kids[r.kid].text],
              LAMBDA t : ContainsKw(t, "point") /\ Len(Digits(Strip(t))) > 0)

\* C24: when the result comes from approach 3, it is the number of the first
\* "<number> points" match of the text it read: the number right before the
\* word points, not a value made of other digits of the text.
C24_FirstPointsMatch ==
    (/\ gp_pc = "done"
     /\ Len(gp_hist) > 0
     /\ gp_hist[Len(gp_hist)] = "page"
     /\ ~Approach1(gp_page).found
     /\ ~Approach2(gp_page).found
     /\ Len(PointsTexts(gp_page)) > 0
     /\ FirstPointsNumber(PointsTexts(gp_page)[1]).found)
    => gp_result = FirstPointsNumber(PointsTexts(gp_page)[1]).value

-----------------------------------------------------------------------------
(* Claims about fetch_points_concurrently                                  *)

\* C7: the returned map has exactly the submitted participant ids as keys,
\* and holds the fallback value for every task that raised or whose
\* exception was caught.
C7_OneEntryEach ==
    fp_pc = "returned" =>
        /\ DOMAIN fp_results = {fp_parts[i] : i \in DOMAIN fp_parts}
        /\ \A i \in DOMAIN fp_parts :
             fp_task[i].out \in {"caught", "raised"} =>
                 fp_results[fp_parts[i]] = FallbackPoints

C7_Witness ==
    /\ fp_pc = "returned"
    /\ Len(fp_parts) = 3
    /\ fp_task[1].out = "value" /\ fp_results[fp_parts[1]] = ValueOf(fp_parts[1])
    /\ fp_task[2].out = "caught"
    /\ fp_task[3].out = "raised" /\ fp_task[3].st = "done"


\* C20: at no time do more than max_workers tasks execute, and every
\* submitted task is eventually started.
C20_BoundedPool ==
    /\ [](Cardinality(Executing) <= max_workers)
    /\ <>(\A i \in DOMAIN fp_task : fp_task[i].st # "queued")

\* Four tasks submitted: three execute and the fourth waits in the queue.
C20_Witness ==
    /\ Len(fp_parts) = 4
    /\ Cardinality(Executing) = max_workers
    /\ fp_task[4].st = "queued"

\* C25: when every task has finished (each having run its increment), the
\* counter `processed` equals the number of submitted participants,
\* whatever the interleaving of the tasks' read and write steps.
C25_NoLostUpdate ==
    (/\ \A i \in DOMAIN fp_task : Finished(i)
     /\ \A i \in DOMAIN fp_task : fp_task[i].out \in {"value", "caught"})
    => fp_processed = Len(fp_parts)

-----------------------------------------------------------------------------
(* Claims about the upload handlers                                        *)

HasJob == TheJob \in DOMAIN processing_state
Job == processing_state[TheJob]
BatchIds(b) == {Job.batches[b].participants[i].id : i \in 1..Len(Job.batches[b].participants)}

\* C1: calling finalize on a job that is already completed adds no further
\* points-history rows: once the job's status is 'completed', no step
\* changes the history table.
C1_FinalizeIdempotent ==
    [][(HasJob /\ Job.status = "completed") => db_history' = db_history]_vars

\* C8: a step that records the failure of batch k leaves the job's results
\* as they were, marks batch k 'failed', leaves every other batch as it was
\* and answers canContinue; and the results of every completed batch are in
\* the job's merged results.
C8_FailedBatchKeepsResults ==
    /\ [][(/\ HasJob
           /\ TheJob \in DOMAIN processing_state'
           /\ Len(processing_state'[TheJob].errors) = Len(Job.errors) + 1
           /\ processing_state'[TheJob].errors[Len(Job.errors) + 1].kind = "batch_failed")
          => LET k == processing_state'[TheJob].errors[Len(Job.errors) + 1].ref
                 after == processing_state'[TheJob]
             IN  /\ after.results = Job.results
                 /\ after.batches[k].status = "failed"
                 /\ \A b \in DOMAIN Job.batches : b # k => after.batches[b] = Job.batches[b]
                 /\ resp'.success = FALSE
                 /\ resp'.canContinue = TRUE]_vars
    /\ [](HasJob =>
            \A b \in DOMAIN Job.batches :
                Job.batches[b].status = "completed" =>
                    \A id \in DOMAIN Job.batches[b].results :
                        /\ id \in DOMAIN Job.results
                        /\ Job.results[id] = Job.batches[b].results[id])

\* Three batches, the second failed, the first and third scraped after it
\* or before it: the merged results hold those of batches 1 and 3.
C8_Witness ==
    /\ HasJob
    /\ Len(Job.batches) = 3
    /\ Job.batches[1].status = "completed"
    /\ Job.batches[2].status = "failed"
    /\ Job.batches[3].status = "completed"
    /\ DOMAIN Job.results = BatchIds(1) \cup BatchIds(3)
    /\ BatchIds(3) # {}
    /\ resp.success

\* C9: while a batch of a job is being scraped, every earlier batch of the
\* job has been scraped (none is still pending), and no other batch of the
\* job is being scraped.
C9_SequentialBatches ==
    \A r \in inflight :
        (~r.stale_state /\ ~r.stale_batch) =>
            /\ \A b \in 1..(r.batch_num - 1) :
                   processing_state[r.file].batches[b].status # "pending"
            /\ \A q \in inflight : q.file = r.file => q = r

\* The stages a job's status may move through, one at a time.  The code
\* keeps no status for a job whose batches are being scraped: that stage
\* lies between 'parsed' and 'completed'.
StatusMoves ==
    {<<"pending", "validated">>, <<"validated", "parsed">>, <<"parsed", "completed">>}

\* C10: a job's status stays, moves one stage forward, or becomes 'error'.
C10_StatusOrder ==
    [][(HasJob /\ TheJob \in DOMAIN processing_state') =>
          \/ processing_state'[TheJob].status = Job.status
          \/ processing_state'[TheJob].status = "error"
          \/ <<Job.status, processing_state'[TheJob].status>> \in StatusMoves]_vars

\* C11: a completed job has been parsed and none of its batches is still
\* pending.
C11_CompletedAfterBatches ==
    (HasJob /\ Job.status = "completed") =>
        /\ Len(Job.batches) > 0
        /\ \A b \in DOMAIN Job.batches : Job.batches[b].status # "pending"

\* The ids of the job's participant list.
JobParticipantIds == {Job.participants[i].id : i \in DOMAIN Job.participants}

\* C12: the finalize that completes a job whose batches have all been
\* scraped (completed or failed) adds exactly one points-history row for
\* every participant of the job, and none for anyone else.
C12_OneRecordPerParticipant ==
    [][(/\ HasJob
        /\ TheJob \in DOMAIN processing_state'
        /\ Job.status # "completed"
        /\ processing_state'[TheJob].status = "completed"
        /\ Len(Job.batches) > 0
        /\ \A b \in DOMAIN Job.batches : Job.batches[b].status # "pending")
       => /\ \A id \in JobParticipantIds :
                 Len(HistoryOf(db_history', id)) = Len(HistoryOf(db_history, id)) + 1
          /\ \A id \in DOMAIN db_history' \ JobParticipantIds :
                 HistoryOf(db_history', id) = HistoryOf(db_history, id)]_vars

\* C21: when one task never finishes, fetch_points_concurrently still
\* returns, with the fallback value for that participant and the resolved
\* value for every other participant whose task returned points.
C21_HungTaskDoesNotStall ==
    /\ (Hung # {}) ~> (fp_pc = "returned")
    /\ [](fp_pc = "returned" /\ Hung # {} =>
            \A i \in DOMAIN fp_task :
                /\ i \in Hung => fp_results[fp_parts[i]] = FallbackPoints
                /\ fp_task[i].out = "value" => fp_results[fp_parts[i]] = ValueOf(fp_parts[i]))

\* C22: a participant whose resolution gives the fallback value does not
\* fail its batch or the job: the scrape_batch request ends with the batch
\* completed, the fallback value in the batch's and the job's results, the
\* job's status as it was, and a new warning naming the participant.
C22_FallbackKeepsBatch ==
    [][\A r \in inflight :
          (inflight' = inflight \ {r} /\ resp'.success /\ ~r.stale_state /\ ~r.stale_batch)
          => LET before == processing_state[r.file]
                 after == processing_state'[r.file]
                 degraded == {id \in {r.parts[i] : i \in 1..Len(r.parts)} \cap DOMAIN db_participants :
                                 ScrapePoints(db_participants[id]) = FallbackPoints}
             IN  /\ after.batches[r.batch_num].status = "completed"
                 /\ after.status = before.status
                 /\ \A id \in degraded :
                        /\ after.results[id] = FallbackPoints
                        /\ after.batches[r.batch_num].results[id] = FallbackPoints
                        /\ \E k \in (Len(before.warnings) + 1)..Len(after.warnings) :
                               after.warnings[k] = Msg("low_points", id)]_vars

\* Batch 1 has been scraped: participant 2, whose profile host is down, has
\* the fallback value and a warning, participant 1 its points.
C22_Witness ==
    /\ HasJob
    /\ Len(Job.batches) = 3
    /\ Job.batches[1].status = "completed"
    /\ Job.status = "parsed"
    /\ 2 \in DOMAIN Job.results
    /\ Job.results[2] = FallbackPoints
    /\ Job.results[1] > FallbackPoints
    /\ \E k \in 1..Len(Job.warnings) : Job.warnings[k] = Msg("low_points", 2)

\* C23: the result list of a successful finalize is in non-increasing order
\* of points, names no participant twice, has totalParticipants entries, and,
\* when every batch of the job has been scraped, has exactly one entry for
\* each participant of the job.
C23_FinalizeResultList ==
    [][(~Refused(1, TheJob) /\ Finalize(1, TheJob))
       => LET rows == resp'.results
          IN  /\ resp'.success
              /\ \A i, j \in 1..Len(rows) : i < j => rows[i].points >= rows[j].points
              /\ \A i, j \in 1..Len(rows) : i < j => rows[i].id # rows[j].id
              /\ resp'.totalParticipants = Len(rows)
              /\ (/\ Len(Job.batches) > 0
                  /\ \A b \in DOMAIN Job.batches : Job.batches[b].status = "completed")
                 => {rows[i].id : i \in 1..Len(rows)} = JobParticipantIds]_vars

\* Finalize has answered for the 11-row job with all three batches scraped:
\* eleven entries, the first with more points than the last.
C23_Witness ==
    /\ HasJob
    /\ Job.status = "completed"
    /\ \A b \in DOMAIN Job.batches : Job.batches[b].status = "completed"
    /\ resp.success
    /\ Len(resp.results) = 11
    /\ resp.totalParticipants = 11
    /\ resp.results[1].points > resp.results[11].points

\* s is an initial part of t.
IsPrefix(s, t) == Len(s) <= Len(t) /\ SubSeq(t, 1, Len(s)) = s

\* C26: validate, parse, scrape_batch, finalize and refresh leave every
\* existing points-history row as it is (they only add rows), and
\* delete_all_participants removes only rows of participants of the calling
\* account.
C26_AppendOnlyHistory ==
    [][/\ \A u \in Users :
            DeleteAll(u) =>
                \A id \in DOMAIN db_history :
                    db_participants[id].user_id # u
                    => id \in DOMAIN db_history' /\ db_history'[id] = db_history[id]
       /\ (~\E u \in Users : DeleteAll(u)) =>
                \A id \in DOMAIN db_history :
                    id \in DOMAIN db_history' /\ IsPrefix(db_history[id], db_history'[id])]_vars

\* Account 1 has deleted its participants after a finalize gave them rows;
\* the row of account 2's participant is still there.
C26_Witness ==
    /\ rendered.page = "deleted"
    /\ HasJob
    /\ Job.status = "completed"
    /\ DOMAIN Job.results # {}
    /\ UserParticipants(1, db_participants) = {}
    /\ DOMAIN db_history = UserParticipants(2, db_participants)
    /\ \E id \in DOMAIN db_history : Len(db_history[id]) > 0

\* The participants of the batches of a refresh request that are not in
\* `failed`.
BatchParticipants(r, failed) ==
    {r.parts[i].id : i \in {i \in 1..Len(r.parts) :
                               ((i - 1) \div MAX_BATCH_SIZE) + 1 \notin failed}}

\* C27: a refresh whose batches have not all raised adds one history row
\* for exactly the participants of the batches that did not raise, and one
\* last_refresh row; a refresh whose batches have all raised adds no
\* history row and no last_refresh row.
C27_RefreshBatchFailures ==
    [][\A r \in refreshing :
          (refreshing' = refreshing \ {r} /\ rendered'.page \in {"results", "all_failed"})
          => IF rendered'.failed = 1..Len(SplitBatches(r.parts))
             THEN UNCHANGED <<db_history, db_last_refresh>>
             ELSE /\ Len(db_last_refresh') = Len(db_last_refresh) + 1
                  /\ \A id \in DOMAIN db_participants :
                         Len(HistoryOf(db_history', id)) =
                             Len(HistoryOf(db_history, id))
                             + (IF id \in BatchParticipants(r, rendered'.failed) THEN 1 ELSE 0)]_vars

\* The rows of the job's file whose profile is absent or blank.
BlankRows == {i \in 1..Len(Job.csv.rows) : Len(Strip(Job.csv.rows[i].profile)) = 0}

\* Messages of a list that are m.
CountMsg(msgs, m) == Cardinality({k \in 1..Len(msgs) : msgs[k] = m})

\* C28: a parse gives the participant of every row with an absent or blank
\* profile a reference that holds the placeholder marker and appends one
\* warning for the row; get_points on that reference returns the fallback
\* value without a fetch, whatever the network would answer.
C28_BlankProfilePlaceholder ==
    [][(~Refused(1, TheJob) /\ Parse(1, TheJob))
       => \A i \in BlankRows :
              LET part == processing_state'[TheJob].participants[i]
                  link == StrLink(part.profile_url)
              IN  /\ part.name = Job.csv.rows[i].Name
                  /\ part.profile_url[1] = "INVALID_PROFILE_URL"
                  /\ db_participants'[part.id].profile_url = part.profile_url
                  /\ CountMsg(processing_state'[TheJob].warnings, Msg("placeholder", i + 1))
                         = CountMsg(Job.warnings, Msg("placeholder", i + 1)) + 1
                  /\ \A outs \in {<< >>, <<PageOutcome(ProfilePage(i, now))>>} :
                         GetPointsFrom(link, 0, outs, 0) =
                             [points |-> FallbackPoints, fetches |-> 0]]_vars

\* The 11-row file has been parsed: its third row, which has no profile, has
\* a participant with a placeholder reference and one warning.
C28_Witness ==
    /\ HasJob
    /\ Job.status = "parsed"
    /\ BlankRows = {3}
    /\ Len(Job.participants) = 11
    /\ Job.participants[3].profile_url = <<"INVALID_PROFILE_URL", "_", "name03">>
    /\ Job.warnings = <<Msg("placeholder", 4)>>

\* C29: however many parse requests are made, the table holds at most one
\* participant for an account and a profile reference.
C29_OneParticipantPerProfile ==
    \A a, b \in DOMAIN db_participants :
        (/\ db_participants[a].user_id = db_participants[b].user_id
         /\ db_participants[a].profile_url = db_participants[b].profile_url)
        => a = b

\* C30: a scrape_batch request of the job's owner with a batch number below
\* 1 or above the job's number of batches (any number when the job has not
\* been parsed) is answered with the error 'Invalid batch number' and leaves
\* the job (status, batches, results, warnings, errors) and the tables as
\* they were; and no request that is taken up has such a number.
C30_InvalidBatchNumberRejected ==
    [][/\ \A u \in Users, f \in RequestIds, n \in BatchNums(TheCsv) :
              (/\ ~Refused(u, f)
               /\ n < 1 \/ n > Len(processing_state[f].batches)
               /\ ScrapeBegin(u, f, n))
              => /\ resp' = Rejection(InvalidBatchNumber)
                 /\ ~resp'.success
                 /\ UNCHANGED <<processing_state, inflight, db_participants,
                                db_history, db_last_refresh>>
       /\ \A r \in inflight' \ inflight :
              /\ r.file \in DOMAIN processing_state
              /\ r.batch_num \in 1..Len(processing_state[r.file].batches)]_vars

\* The last answer is 'Invalid batch number' for a parsed job whose first
\* batch is already scraped.
C30_Witness ==
    /\ HasJob
    /\ Job.status = "parsed"
    /\ Len(Job.batches) = 3
    /\ Job.batches[1].status = "completed"
    /\ 1 \in DOMAIN Job.results
    /\ resp = Rejection(InvalidBatchNumber)

\* C31: a job operation (processing page, validate, parse, scrape_batch,
\* finalize) asked for by an account that does not own the job, or under an
\* id that names no job, is refused with 'Invalid or expired file ID' and
\* changes neither the jobs nor the tables.
C31_ForeignRequestsRefused ==
    [][\A u \in Users, f \in RequestIds :
          (f \notin DOMAIN processing_state \/ processing_state[f].user_id # u)
          => /\ ProcessingPage(u, f) => rendered' = Page(InvalidFileId, << >>)
             /\ (\/ Validate(u, f)
                 \/ Parse(u, f)
                 \/ \E n \in BatchNums(CsvOneBatch) : ScrapeBegin(u, f, n)
                 \/ Finalize(u, f))
                => resp' = Rejection(InvalidFileId)
             /\ (\/ ProcessingPage(u, f)
                 \/ Validate(u, f)
                 \/ Parse(u, f)
                 \/ \E n \in BatchNums(CsvOneBatch) : ScrapeBegin(u, f, n)
                 \/ Finalize(u, f))
                => UNCHANGED <<processing_state, inflight, db_participants,
                               db_history, db_last_refresh>>]_vars

\* A request has just been refused while the job of account 1 is scraped and
\* holds results.
C31_Witness ==
    /\ HasJob
    /\ Job.status = "parsed"
    /\ DOMAIN Job.results # {}
    /\ resp = Rejection(InvalidFileId)

\* C32: completed is terminal: once the job's status is 'completed', no
\* step (validate, parse, scrape_batch, finalize) changes its status, its
\* batches or its accumulated results.
C32_CompletedIsTerminal ==
    [][(HasJob /\ Job.status = "completed")
       => /\ TheJob \in DOMAIN processing_state'
          /\ processing_state'[TheJob].status = "completed"
          /\ processing_state'[TheJob].batches = Job.batches
          /\ processing_state'[TheJob].results = Job.results]_vars

\* C33: in every reachable state the accumulated results of a job are the
\* union of the results of its completed batches: no entry for a participant
\* of a pending or failed batch, none for an id outside the job's current
\* participant list.
C33_ResultsOfCompletedBatches ==
    \A f \in DOMAIN processing_state :
        LET job == processing_state[f]
            done == {b \in 1..Len(job.batches) : job.batches[b].status = "completed"}
        IN  /\ DOMAIN job.results = UNION {DOMAIN job.batches[b].results : b \in done}
            /\ \A b \in done : \A id \in DOMAIN job.batches[b].results :
                   job.results[id] = job.batches[b].results[id]
            /\ DOMAIN job.results
                   \subseteq {job.participants[i].id : i \in 1..Len(job.participants)}

\* C34: a finalize call that answers success = false has persisted nothing:
\* no points-history row, no current points and no refresh marker written by
\* the call remains in the tables.
C34_FailedFinalizePersistsNothing ==
    [][(/\ HasJob
        /\ TheJob \in DOMAIN processing_state'
        /\ processing_state'[TheJob].errors = Append(Job.errors, Msg("finalize_failed", 0))
        /\ ~resp'.success)
       => UNCHANGED <<db_participants, db_history, db_last_refresh>>]_vars

\* C35: after any sequence of finalize and refresh operations, a participant
\* that has a points-history row has current_points equal to the points of
\* its latest row; so the delta a refresh reports from current_points is the
\* delta from the latest row of the ledger.
C35_CurrentPointsIsLatestRecord ==
    /\ [](\A id \in DOMAIN db_participants :
             LET h == HistoryOf(db_history, id)
             IN  Len(h) > 0 => db_participants[id].current_points = h[Len(h)])
    /\ [][(refreshing' # refreshing /\ refreshing' \subseteq refreshing
           /\ rendered'.page = "results")
          => \A i \in 1..Len(rendered'.rows) :
                 LET prior == HistoryOf(db_history, rendered'.rows[i].id)
                 IN  Len(prior) > 0
                     => rendered'.rows[i].weekly =
                            rendered'.rows[i].points - prior[Len(prior)]]_vars

\* A refresh has stored a second row with other points for a participant
\* and rendered its results.
C35_Witness ==
    /\ rendered.page = "results"
    /\ \E id \in DOMAIN db_participants :
           LET h == HistoryOf(db_history, id)
           IN  /\ Len(h) = 2
               /\ h[1] # h[2]
               /\ db_participants[id].current_points = h[2]
               /\ \E i \in 1..Len(rendered.rows) :
                      rendered.rows[i].id = id /\ rendered.rows[i].weekly = h[2] - h[1]

\* C37: every upload registers its job under an id that is not in the
\* registry yet: no upload replaces the state of an existing job, also when
\* the same account uploads twice within one clock second.
C37_UploadNeverOverwrites ==
    [][\A u \in Users, ts \in 1..MaxStamp, csv \in UploadedFiles :
          Upload(u, ts, csv)
          => /\ FileId(ts, u) \notin DOMAIN processing_state
             /\ \A f \in DOMAIN processing_state :
                    processing_state'[f] = processing_state[f]]_vars

-----------------------------------------------------------------------------
(* Claims about the batching                                               *)

RECURSIVE ConcatBatches(_, _)
ConcatBatches(batches, b) ==
    IF b > Len(batches) THEN << >>
    ELSE batches[b].participants \o ConcatBatches(batches, b + 1)

\* C19: n participants are split into ceil(n / 5) batches whose
\* concatenation is the list; every batch but the last holds 5, the last
\* holds 1 to 5, and an empty list gives no batch.
C19_SplitBatches ==
    sb_pc = "done" =>
        LET n == Len(sb_participants)
            count == Len(sb_batches)
        IN  /\ MAX_BATCH_SIZE * count >= n
            /\ MAX_BATCH_SIZE * count < n + MAX_BATCH_SIZE
            /\ ConcatBatches(sb_batches, 1) = sb_participants
            /\ \A b \in 1..(count - 1) : Len(sb_batches[b].participants) = MAX_BATCH_SIZE
            /\ count > 0 => Len(sb_batches[count].participants) \in 1..MAX_BATCH_SIZE

\* Twelve participants give batches of 5, 5 and 2.
C19_Witness ==
    /\ sb_pc = "done"
    /\ Len(sb_participants) = 12
    /\ Len(sb_batches) = 3
    /\ Len(sb_batches[1].participants) = 5
    /\ Len(sb_batches[2].participants) = 5
    /\ Len(sb_batches[3].participants) = 2

-----------------------------------------------------------------------------
(* Claims about next_refresh                                               *)

\* The remaining time of an answer, in minutes.
AnswerRemaining(a) == a.days * MinutesPerDay + a.hours * MinutesPerHour + a.minutes

\* C15: the query answers can_refresh = false with the time remaining
\* L + 7 days - T when fewer than 7 days have passed since the last
\* refresh, T being a time during the call, and can_refresh = true
\* otherwise, also when there is no last refresh.
C15_RefreshEligibility ==
    nr_pc = "done" =>
        IF nr_last # NoMarker /\ nr_now - nr_last < Cooldown
        THEN /\ ~nr_resp.can_refresh
             /\ nr_resp.has_remaining
             /\ \E t \in nr_now..(nr_now + nr_lag) :
                    AnswerRemaining(nr_resp) = nr_last + Cooldown - t
        ELSE nr_resp.can_refresh

\* C36: for every time of the last refresh and every current time,
\* refresh_points goes past its cooldown test exactly when next_refresh
\* answers can_refresh = true, also at exactly 7 days after the last refresh
\* and when there is no last refresh.
C36_GateAgreesWithQuery ==
    nr_pc = "done" => (nr_resp.can_refresh <=> RefreshProceeds(nr_last, nr_now))

-----------------------------------------------------------------------------
(* Claims about the ledger and the refresh gate                            *)

\* C13: after a finalize that answers success, the latest row of
\* last_refresh carries the time of that finalize, whether or not the table
\* had a row before.
C13_FinalizeUpdatesMarker ==
    [][(~Refused(1, TheJob) /\ Finalize(1, TheJob))
       => /\ resp'.success
          /\ Len(db_last_refresh') > 0
          /\ LatestMarker(db_last_refresh').at = now]_vars

\* C14: when a storage operation fails during finalize, the job's status
\* becomes "error" (it does not stay what it was) and the response reports
\* the failure.
C14_FinalizeFailureFailsJob ==
    [][FinalizeFail(1, TheJob)
       => /\ processing_state'[TheJob].status = "error"
          /\ ~resp'.success]_vars

\* The rows of last_refresh that refresh_points added.
RefreshMarkers(markers) == {i \in 1..Len(markers) : markers[i].by = "refresh"}

\* C16: any two rows of last_refresh written by refresh_points are at least
\* 7 days apart, also when refresh requests overlap, and a refresh refused by
\* the cooldown starts no fetch and writes no points, history row or marker.
C16_CooldownBetweenRefreshes ==
    /\ [](\A i, j \in RefreshMarkers(db_last_refresh) :
              i < j => db_last_refresh[j].at - db_last_refresh[i].at >= RefreshDays)
    /\ [][(GateClosed(db_last_refresh, now) /\ \E q \in 1..MaxRefreshing : RefreshBegin(1, q))
          => UNCHANGED <<refreshing, db_participants, db_history, db_last_refresh>>]_vars

\* The weekly figures of reported rows against the history before the
\* commit: new points minus the latest earlier row, or the first-upload text
\* exactly when there is no earlier row.
WeeklyDeltaOf(rows, history) ==
    \A i \in 1..Len(rows) :
        LET prior == HistoryOf(history, rows[i].id)
        IN  IF Len(prior) = 0 THEN rows[i].first
            ELSE /\ ~rows[i].first
                 /\ rows[i].weekly = rows[i].points - prior[Len(prior)]

\* C17: when finalize or refresh commits points for a participant, the
\* weekly delta it reports is the new points minus the participant's most
\* recent earlier history row, and is 'N/A (First upload)' exactly when the
\* participant has no earlier row.
C17_WeeklyDeltaOnCommit ==
    [][/\ (~Refused(1, TheJob) /\ Finalize(1, TheJob))
           => WeeklyDeltaOf(resp'.results, db_history)
       /\ (rendered'.page = "results" /\ \E r \in refreshing : RefreshEnd(r, {}, {}))
           => WeeklyDeltaOf(rendered'.rows, db_history)]_vars

\* C18: the weekly change view_participants shows for a participant is the
\* latest history row minus the one before it, and zero when the participant
\* has fewer than two rows.
C18_ViewWeeklyChange ==
    [][View(1)
       => \A i \in 1..Len(rendered'.rows) :
              LET h == HistoryOf(db_history, rendered'.rows[i].id)
              IN  rendered'.rows[i].weekly =
                      IF Len(h) >= 2 THEN h[Len(h)] - h[Len(h) - 1] ELSE 0]_vars

=============================================================================
